---- MODULE Spec2Model ----
(***************************************************************************)
(* Model of the form-automation repository.                                *)
(*                                                                         *)
(*   BatchSpec    bdo_form_filler.py: process_batch and main               *)
(*   ResolveSpec  form_filler.py: find_field_by_multiple_strategies        *)
(*   SessionSpec  form_filler.py: FormFiller.fill_form                     *)
(*   FillSpec     form_filler.py: fill_field and safe_send_keys            *)
(*   AnalyzeSpec  form_analyzer.py: analyze_form, create_excel_template     *)
(*   SubmitSpec   form_filler.py: submit_form                               *)
(*   DataSpec     bdo_form_filler.py: the field values of the two paths     *)
(*   ClassifySpec bdo_form_filler.py: fill_form and a tab of process_batch  *)
(*                                                                         *)
(* The browser-control driver is the environment: every driver call is a   *)
(* nondeterministic choice among the outcomes the call can have (a normal  *)
(* return, a False/None result, a timeout, an exception).                  *)
(***************************************************************************)
EXTENDS Integers, Sequences, FiniteSets, TLC

VARIABLES
    \* ---- bdo_form_filler.py: process_batch / main -------------------------
    bpc,                \* position in process_batch / main
    phone_numbers,      \* the input list (phone numbers are abstract values)
    max_tabs,           \* the max_tabs argument
    remaining_numbers,  \* remaining_numbers
    successful,         \* successful
    failed,             \* failed
    batch,              \* batch (<<>> while unbound)
    batch_bound,        \* whether the local batch has been assigned yet
    form_filler,        \* "None" or "obj": the local form_filler
    driver,             \* form_filler.driver: "None", "ctor" or "setup"
    ctor_session,       \* driver session opened by BDOFormFiller.__init__
    setup_session,      \* driver session opened by setup_driver
    chrome,             \* browser processes alive, by the session that started them
    orphans,            \* sessions of earlier iterations never quit
    tab,                \* index of the tab (and of the number in batch) being handled
    active_tab,         \* the tab the driver is switched to (0: the initial window)
    tab_pages,          \* per tab of the session: what process_batch did in it
    next_button,        \* result of the click-Next script in the current tab
    popup_btn,          \* result of the wait for #personalbtn in the current tab
    exc,                \* exception in flight: "none", "Exception", "NameError"
    exc_at,             \* the step of this iteration that raised ("none": no error)
    batches_taken,      \* number of slices taken so far
    iterations,         \* number of times the body of the while loop was entered
    remaining_at_entry, \* len(remaining_numbers) when the body was last entered
    faults,             \* driver exceptions that ended a batch so far
    results_file,       \* rows of form_results.xlsx (written when bpc = "saved")
    \* ---- form_filler.py: find_field_by_multiple_strategies ----------------
    rpc,                \* "idle", "strategies", "fuzzy" or "done"
    rpage,              \* the page: its nodes in document order
    rlabel,             \* the label argument
    strategy,           \* index of the strategy tried next (1..8)
    rresult,             \* what the call gave: [kind, elem]
    \* ---- form_filler.py: FormFiller.fill_form -----------------------------
    spc,                \* position in fill_form
    columns,            \* df.columns: the column names of the template
    df,                 \* the data rows: per row, per column "nan", "" or a value
    form,               \* the nodes of the page at self.url
    idx,                \* idx of the row loop
    col,                \* how many columns of row idx the column loop has taken
    field,              \* field: the element the resolver returned (0: none)
    field_page,         \* the page load (value of navigations) field was found in
    page_state,         \* "blank", "loaded", "dirty" (typed into) or "submitted"
    navigations,        \* number of driver.get(self.url) that returned
    fill_passes,        \* the row indexes whose column loop ran to its end
    submit_calls,       \* the row indexes for which submit_form was called
    edge,               \* self.driver of the FormFiller: "open" or "quit"
    sexc_at,            \* the call whose exception reached the outer except
    values,             \* the value each node of the page holds
    resolved,           \* the <<idx, col>> the resolver was called for
    written,            \* the <<idx, col>> whose fill_field touched its element
    fill_failures,      \* the <<idx, col>> whose fill_field caught an exception
    \* ---- form_filler.py: fill_field / safe_send_keys on one element -------
    fpc,                \* position in fill_field
    call,               \* which of two successive calls with the same value runs
    field_type,         \* field.get_attribute('type')
    str_value,          \* str_value, the text to fill in
    selected,           \* field.is_selected() (checkbox, radio)
    other_selected,     \* whether another radio of the field's group is selected
    elem_value,         \* the value the element holds
    options,            \* the texts of the option elements of a select
    chosen,             \* index of the option clicked in this call (0: none)
    forced,             \* whether this call set the value of a select by script
    attempt,            \* attempt of safe_send_keys
    actual_value,       \* actual_value read back by safe_send_keys
    ssk,                \* safe_send_keys: "none", "returned" or "raised"
    clicks,             \* clicks issued on the checkbox or radio in this call
    caught,             \* whether this call's except clause caught an exception
    first,              \* what the first call left: [selected, caught]
    \* ---- form_analyzer.py: analyze_form / create_excel_template -----------
    apc,                \* position in main of the analyzer
    apage,              \* the page at the analyzed URL: its nodes in document order
    adriver,            \* self.driver of the FormAnalyzer: "None", "open", "quit"
    pos,                \* how many of input_elements the loop has taken
    form_fields,        \* self.form_fields (elem: the node an entry came from)
    template,           \* the header row of form_template.xlsx (<<>>: not written)
    \* ---- form_filler.py: submit_form --------------------------------------
    mpc,                \* position in submit_form: "idle", "cascade", "returned"
    clickable,          \* the strategies whose selector has a clickable element
    has_form,           \* whether the page has a form (document.forms[0])
    submit_strategy,    \* index in submit_strategies of the strategy tried next
    invoked,            \* the strategies invoked so far, in order
    submit_result,      \* "none", "True" or "False"
    \* ---- bdo_form_filler.py: the field values sent to the fill script -----
    dpc,                \* "idle" or "run"
    phone_number,       \* the phone number string, as a sequence of characters
    computed,           \* the paths that have prepared their data for phone_number
    form_data,          \* form_data of BDOFormFiller.fill_form
    batch_data,         \* the data argument of the fill script in process_batch
    \* ---- bdo_form_filler.py: one number on one page, by either path --------
    cpc,                \* "idle" or "run"
    tab_dom,            \* what the page holds and when its popup becomes clickable
    fill_form_result,   \* what BDOFormFiller.fill_form returned: "none", "True", "False"
    batch_record,       \* the list process_batch put the number on: "none", "successful", "failed"
    single_assigned,    \* the element ids fill_form's script assigned a value to
    batch_assigned      \* the element ids the batch fill script assigned a value to

bvars == <<bpc, phone_numbers, max_tabs, remaining_numbers, successful, failed,
           batch, batch_bound, form_filler, driver, ctor_session, setup_session, chrome, orphans,
           tab, active_tab, tab_pages, next_button, popup_btn, exc, exc_at,
           batches_taken, iterations, remaining_at_entry, faults, results_file>>

\* Groups used in UNCHANGED
inputs == <<phone_numbers, max_tabs>>
lists == <<successful, failed>>
slicing == <<remaining_numbers, batch, batch_bound, batches_taken>>
browser == <<form_filler, driver, ctor_session, setup_session, chrome, orphans>>
tabs == <<tab, active_tab>>
locals == <<next_button, popup_btn>>
error == <<exc, exc_at, faults>>
loop == <<iterations, remaining_at_entry>>

rvars == <<rpc, rpage, rlabel, strategy, rresult>>

svars == <<spc, columns, df, form, idx, col, field, field_page, page_state, navigations,
           fill_passes, submit_calls, edge, sexc_at, values, resolved, written,
           fill_failures>>

\* What the session has recorded of its lookups and writes
slog == <<resolved, written, fill_failures, field_page>>

fvars == <<fpc, call, field_type, str_value, selected, other_selected, elem_value, options, chosen,
           forced, attempt, actual_value, ssk, clicks, caught, first>>

avars == <<apc, apage, adriver, pos, form_fields, template>>

mvars == <<mpc, clickable, has_form, submit_strategy, invoked, submit_result>>

dvars == <<dpc, phone_number, computed, form_data, batch_data>>

cvars == <<cpc, tab_dom, fill_form_result, batch_record, single_assigned, batch_assigned>>

vars == <<bvars, rvars, svars, fvars, avars, mvars, dvars, cvars>>

\* What find_field_by_multiple_strategies gives: an element (its index in the
\* page), None, or an exception that leaves the function
Found(k) == [kind |-> "found", elem |-> k]
NotFound == [kind |-> "none", elem |-> 0]
Raised == [kind |-> "raised", elem |-> 0]
NoResult == [kind |-> "pending", elem |-> 0]

\* The resolver at rest (no call in progress)
RIdle ==
    /\ rpc = "idle"
    /\ rpage = <<>>
    /\ rlabel = <<>>
    /\ strategy = 0
    /\ rresult = NoResult

\* What a step of one program leaves alone: the state of the others
\* The sequential session at rest (fill_form not called)
SIdle ==
    /\ spc = "idle"
    /\ columns = <<>>
    /\ df = <<>>
    /\ form = <<>>
    /\ idx = 0
    /\ col = 0
    /\ field = 0
    /\ field_page = 0
    /\ page_state = "blank"
    /\ navigations = 0
    /\ fill_passes = {}
    /\ submit_calls = {}
    /\ edge = "None"
    /\ sexc_at = "none"
    /\ values = <<>>
    /\ resolved = {}
    /\ written = {}
    /\ fill_failures = {}

\* fill_field at rest (not called)
FIdle ==
    /\ fpc = "idle"
    /\ call = 0
    /\ field_type = ""
    /\ str_value = <<>>
    /\ selected = FALSE
    /\ other_selected = FALSE
    /\ elem_value = <<>>
    /\ options = <<>>
    /\ chosen = 0
    /\ forced = FALSE
    /\ attempt = 0
    /\ actual_value = <<>>
    /\ ssk = "none"
    /\ clicks = 0
    /\ caught = FALSE
    /\ first = [selected |-> FALSE, caught |-> FALSE]

\* The analyzer at rest (not run)
AIdle ==
    /\ apc = "idle"
    /\ apage = <<>>
    /\ adriver = "None"
    /\ pos = 0
    /\ form_fields = <<>>
    /\ template = <<>>

\* submit_form at rest (not called)
MIdle ==
    /\ mpc = "idle"
    /\ clickable = {}
    /\ has_form = FALSE
    /\ submit_strategy = 0
    /\ invoked = <<>>
    /\ submit_result = "none"

\* No field data prepared yet
NoData == [firstName |-> <<>>, lastName |-> <<>>, phone |-> <<>>, email |-> <<>>]

DIdle ==
    /\ dpc = "idle"
    /\ phone_number = <<>>
    /\ computed = {}
    /\ form_data = NoData
    /\ batch_data = NoData

\* Neither path has been run on a page
CIdle ==
    /\ cpc = "idle"
    /\ tab_dom = <<>>
    /\ fill_form_result = "none"
    /\ batch_record = "none"
    /\ single_assigned = {}
    /\ batch_assigned = {}

nonbatch == <<rvars, svars, fvars, avars, mvars, dvars, cvars>>
nonresolve == <<bvars, svars, fvars, avars, mvars, dvars, cvars>>
nonsession == <<bvars, rvars, fvars, avars, mvars, dvars, cvars>>
nonfill == <<bvars, rvars, svars, avars, mvars, dvars, cvars>>
nonanalyze == <<bvars, rvars, svars, fvars, mvars, dvars, cvars>>
nonsubmit == <<bvars, rvars, svars, fvars, avars, dvars, cvars>>
nondata == <<bvars, rvars, svars, fvars, avars, mvars, cvars>>
nonclassify == <<bvars, rvars, svars, fvars, avars, mvars, dvars>>

----------------------------------------------------------------------------
\* Bounds of the model
MaxNumbers == 22        \* longest input list
MaxTabs == 2            \* largest small max_tabs argument tried
MaxSuccess == 1         \* most confirmations the target site gives in one run
MaxFaults == 2          \* most driver exceptions that end a batch in one run
MaxNodes == 2           \* most nodes on a page given to the resolver
MaxRows == 2            \* most data rows of a template
MaxCols == 2            \* most columns of a template

\* Program constants
FirstBatchSize == 20
DefaultMaxTabs == 20

Min(a, b) == IF a < b THEN a ELSE b

\* remaining_numbers[:n]
Take(s, n) == SubSeq(s, 1, Min(n, Len(s)))
\* remaining_numbers[n:]
Drop(s, n) == SubSeq(s, Min(n, Len(s)) + 1, Len(s))

\* x in list
InList(x, s) == \E k \in 1..Len(s) : s[k] = x

\* The input lists tried: n distinct numbers, or the same with the last entry
\* repeating the first (a spreadsheet column may hold a number twice).
InputList(n, dup) == [k \in 1..n |-> IF dup /\ k = n /\ n > 1 THEN 1 ELSE k]

----------------------------------------------------------------------------
\* kill_chrome(): taskkill /F /IM chrome.exe on the browser processes alive;
\* errors are swallowed, it never raises
kill_chrome(procs) == {}

\* Mutant: the session opened by setup_driver is never quit
QuitSetupSkipped(d, s) == s

\* driver.quit() on the session form_filler.driver refers to
QuitCtor(d, s) == IF d = "ctor" /\ s = "open" THEN "quit" ELSE s
QuitSetup(d, s) == IF d = "setup" /\ s = "open" THEN "quit" ELSE s


BInit ==
    /\ bpc = "while"
    /\ \E n \in 0..MaxNumbers, dup \in BOOLEAN :
          phone_numbers = InputList(n, dup)
    /\ max_tabs \in (1..MaxTabs) \cup {DefaultMaxTabs}
    /\ remaining_numbers = phone_numbers
    /\ successful = <<>>
    /\ failed = <<>>
    /\ batch = <<>>
    /\ batch_bound = FALSE
    /\ form_filler = "None"
    /\ driver = "None"
    /\ ctor_session = "none"
    /\ setup_session = "none"
    /\ chrome = {}
    /\ orphans = 0
    /\ tab = 0
    /\ active_tab = 0
    /\ tab_pages = <<>>
    /\ next_button = "unset"
    /\ popup_btn = "unset"
    /\ exc = "none"
    /\ exc_at = "none"
    /\ batches_taken = 0
    /\ iterations = 0
    /\ remaining_at_entry = 0
    /\ faults = 0
    /\ results_file = <<>>

\* A driver call of the current step raises: control goes to the except clause
Raise ==
    /\ faults < MaxFaults
    /\ faults' = faults + 1
    /\ exc' = "Exception"
    /\ exc_at' = bpc
    /\ bpc' = "except"

\* while remaining_numbers: form_filler = None
While ==
    /\ bpc = "while"
    /\ UNCHANGED <<nonbatch, tab_pages>>
    /\ IF remaining_numbers = <<>>
         THEN /\ bpc' = "returned"
              /\ UNCHANGED <<form_filler, exc_at, loop>>
         ELSE /\ bpc' = "ctor"
              /\ form_filler' = "None"
              /\ exc_at' = "none"
              /\ iterations' = iterations + 1
              /\ remaining_at_entry' = Len(remaining_numbers)
    /\ UNCHANGED <<inputs, lists, slicing, driver, ctor_session, setup_session,
                   chrome, orphans, tabs, locals, exc, faults, results_file>>

\* form_filler = BDOFormFiller(): __init__ opens a driver session; on an error
\* it quits the session it opened (if any) and re-raises, and form_filler stays
\* None. The sessions of the previous iteration's object that were never quit
\* are no longer referenced by anything.
Ctor ==
    /\ bpc = "ctor"
    /\ UNCHANGED <<nonbatch, tab_pages, loop>>
    /\ orphans' = orphans + (IF ctor_session = "open" THEN 1 ELSE 0)
                          + (IF setup_session = "open" THEN 1 ELSE 0)
    /\ setup_session' = "none"
    /\ \/ /\ form_filler' = "obj"
          /\ driver' = "ctor"
          /\ ctor_session' = "open"
          /\ chrome' = chrome \cup {"ctor"}
          /\ bpc' = "setup"
          /\ UNCHANGED error
       \/ /\ Raise                   \* webdriver.Chrome(...) raises
          /\ ctor_session' = "none"
          /\ driver' = "None"
          /\ UNCHANGED <<form_filler, chrome>>
       \/ /\ Raise                   \* maximize_window() raises: driver.quit(); raise
          /\ ctor_session' = "quit"
          /\ driver' = "None"
          /\ UNCHANGED <<form_filler, chrome>>
    /\ UNCHANGED <<inputs, lists, slicing, tabs, locals, results_file>>

\* form_filler.setup_driver(): kill_chrome(), open a second session, self.driver =
\* it, driver.get(url); on an error quit self.driver and return False, and then
\* process_batch raises Exception("Failed to initialize browser")
Setup ==
    /\ bpc = "setup"
    /\ UNCHANGED <<nonbatch, tab_pages, loop>>
    /\ \/ /\ setup_session' = "open"
          /\ driver' = "setup"
          /\ chrome' = kill_chrome(chrome) \cup {"setup"}
          /\ bpc' = "slice"
          /\ UNCHANGED <<ctor_session, error>>
       \/ /\ Raise                   \* webdriver.Chrome(...) raises: self.driver is
                                     \* still the constructor's session
          /\ ctor_session' = QuitCtor(driver, ctor_session)
          /\ chrome' = kill_chrome(chrome)
          /\ UNCHANGED <<driver, setup_session>>
       \/ /\ Raise                   \* self.driver.get(url) raises
          /\ driver' = "setup"
          /\ setup_session' = "quit"
          /\ chrome' = kill_chrome(chrome)
          /\ UNCHANGED ctor_session
    /\ UNCHANGED <<inputs, lists, slicing, form_filler, orphans, tabs, locals,
                   results_file>>

\* Mutant: the first batch is not told apart from the later ones
current_batch_size_always_max_tabs == max_tabs

\* current_batch_size = 20 if len(successful) + len(failed) == 0 else max_tabs
current_batch_size ==
    IF Len(successful) + Len(failed) = 0 THEN FirstBatchSize ELSE max_tabs

\* batch = remaining_numbers[:current_batch_size]
\* remaining_numbers = remaining_numbers[current_batch_size:]
\* (the isinstance type guard on the driver that follows always passes)
Slice ==
    /\ bpc = "slice"
    /\ UNCHANGED <<nonbatch, tab_pages, loop>>
    /\ batch' = Take(remaining_numbers, current_batch_size)
    /\ batch_bound' = TRUE
    /\ remaining_numbers' = Drop(remaining_numbers, current_batch_size)
    /\ batches_taken' = batches_taken + 1
    /\ bpc' = "open_tabs"
    /\ UNCHANGED <<inputs, lists, browser, tabs, locals, error, results_file>>

\* A tab process_batch has not touched yet: not navigated, the fill script not run
\* in it (fill_data 0), the click-Next script not sent to it, its popup not clicked
UntouchedTab ==
    [navigated |-> FALSE, fill_data |-> 0, next_script |-> FALSE, popup_clicked |-> FALSE]

\* active_tabs = {}; for i, phone in enumerate(batch): active_tabs[handles[i]] = phone
\* A handle is named by its place in driver.window_handles.
active_tabs == [handle \in 1..Len(batch) |-> batch[handle]]

\* Mutant: the call leaves the driver on the tab it was on
switch_to_window_ignored(handle) == IF active_tab = 0 THEN 1 ELSE active_tab

\* driver.switch_to.window(handle): the tab the driver acts on after the call
switch_to_window(handle) == handle

\* tabs_script / driver.execute_script(tabs_script) / handles = driver.window_handles
\* active_tabs[handles[i]] = phone: tab i of the batch carries batch[i]
OpenTabs ==
    /\ bpc = "open_tabs"
    /\ UNCHANGED <<nonbatch, loop>>
    /\ \/ /\ bpc' = "navigate"
          /\ tab' = 1
          /\ tab_pages' = [handle \in DOMAIN active_tabs |-> UntouchedTab]
          /\ UNCHANGED error
       \/ /\ Raise                   \* execute_script or window_handles raises
          /\ UNCHANGED <<tab, tab_pages>>
       \/ /\ Len(batch) > 1          \* fewer handles than numbers: handles[i] raises
          /\ Raise
          /\ UNCHANGED <<tab, tab_pages>>
    /\ active_tab' = 0
    /\ UNCHANGED <<inputs, lists, slicing, browser, locals, results_file>>

\* One pass over active_tabs.items(): on to the next tab of the pass `here`, or to
\* the step `after` the pass
NextTab(here, after) ==
    IF tab < Len(batch)
      THEN /\ tab' = tab + 1
           /\ bpc' = here
      ELSE /\ tab' = 1
           /\ bpc' = after

\* for handle, phone in active_tabs.items():
\*     driver.switch_to.window(handle); driver.get(form_filler.url)
Navigate ==
    /\ bpc = "navigate"
    /\ UNCHANGED <<nonbatch, loop>>
    /\ \/ /\ active_tab' = switch_to_window(tab)
          /\ tab_pages' = [tab_pages EXCEPT ![active_tab'].navigated = TRUE]
          /\ NextTab("navigate", "fill")
          /\ UNCHANGED error
       \/ /\ Raise                   \* switch_to.window raises
          /\ UNCHANGED <<tabs, tab_pages>>
       \/ /\ Raise                   \* driver.get raises
          /\ active_tab' = switch_to_window(tab)
          /\ UNCHANGED <<tab, tab_pages>>
    /\ UNCHANGED <<inputs, lists, slicing, browser, locals, results_file>>

\* for handle, phone in active_tabs.items():
\*     driver.switch_to.window(handle); driver.execute_script(<fill script>, data)
Fill ==
    /\ bpc = "fill"
    /\ UNCHANGED <<nonbatch, loop>>
    /\ \/ /\ active_tab' = switch_to_window(tab)
          /\ tab_pages' = [tab_pages EXCEPT ![active_tab'].fill_data = active_tabs[tab]]
          /\ NextTab("fill", "submit_switch")
          /\ UNCHANGED error
       \/ /\ Raise                   \* switch_to.window raises
          /\ UNCHANGED <<tabs, tab_pages>>
       \/ /\ Raise                   \* execute_script raises
          /\ active_tab' = switch_to_window(tab)
          /\ UNCHANGED <<tab, tab_pages>>
    /\ UNCHANGED <<inputs, lists, slicing, browser, locals, results_file>>

\* The submit pass: driver.switch_to.window(handle), outside the inner try
SubmitSwitch ==
    /\ bpc = "submit_switch"
    /\ UNCHANGED <<nonbatch, tab_pages, loop>>
    /\ \/ /\ active_tab' = switch_to_window(tab)
          /\ bpc' = "click_next"
          /\ UNCHANGED error
       \/ /\ Raise
          /\ UNCHANGED active_tab
    /\ UNCHANGED <<inputs, lists, slicing, browser, tab, locals, results_file>>

\* failed.append(phone), and on to the next tab of the submit pass. The locals
\* next_button and popup_btn are dead here (each is assigned again before it is
\* read), so the model forgets them.
RecordFailed ==
    /\ failed' = Append(failed, batch[tab])
    /\ NextTab("submit_switch", "progress")
    /\ next_button' = "unset"
    /\ popup_btn' = "unset"
    /\ UNCHANGED successful

\* successful.append(phone); continue
RecordSuccessful ==
    /\ successful' = Append(successful, batch[tab])
    /\ NextTab("submit_switch", "progress")
    /\ next_button' = "unset"
    /\ popup_btn' = "unset"
    /\ UNCHANGED failed

\* next_button = driver.execute_script(<click the Next button>)
ClickNext ==
    /\ bpc = "click_next"
    /\ UNCHANGED <<nonbatch, loop>>
    /\ tab_pages' = [tab_pages EXCEPT ![active_tab].next_script = TRUE]
    /\ \/ /\ next_button' = "true"   \* a button was found and clicked
          /\ bpc' = "wait_popup"
          /\ UNCHANGED <<lists, tab, popup_btn>>
       \/ RecordFailed               \* no button (False): falls to failed.append
       \/ RecordFailed               \* the script raises: except Exception
    /\ UNCHANGED <<inputs, slicing, browser, active_tab, error, results_file>>

\* popup_btn = WebDriverWait(driver, 3).until(element_to_be_clickable(#personalbtn))
WaitPopup ==
    /\ bpc = "wait_popup"
    /\ UNCHANGED <<nonbatch, tab_pages, loop>>
    /\ \/ /\ Len(successful) < MaxSuccess
          /\ popup_btn' = "clickable"
          /\ bpc' = "click_popup"
          /\ UNCHANGED <<lists, tab, next_button>>
       \/ RecordFailed               \* TimeoutException: bare except, pass
    /\ UNCHANGED <<inputs, slicing, browser, active_tab, error, results_file>>

\* driver.execute_script("arguments[0].click();", popup_btn); successful.append(phone)
ClickPopup ==
    /\ bpc = "click_popup"
    /\ UNCHANGED <<nonbatch, loop>>
    /\ \/ /\ RecordSuccessful
          /\ tab_pages' = [tab_pages EXCEPT ![active_tab].popup_clicked = TRUE]
       \/ /\ RecordFailed            \* the click raises: bare except, pass
          /\ UNCHANGED tab_pages
    /\ UNCHANGED <<inputs, slicing, browser, active_tab, error, results_file>>

\* Show batch progress (prints only)
Progress ==
    /\ bpc = "progress"
    /\ UNCHANGED <<nonbatch, tab_pages, loop>>
    /\ bpc' = "finally"
    /\ UNCHANGED <<inputs, lists, slicing, browser, tabs, locals, error, results_file>>

\* Mutant: the handler appends every number of the batch, recorded or not
MarkFailedAll(b, succ, f) == f \o b

\* for phone in batch:
\*     if phone not in successful and phone not in failed: failed.append(phone)
RECURSIVE MarkFailed(_, _, _)
MarkFailed(b, succ, f) ==
    IF b = <<>> THEN f
    ELSE MarkFailed(Tail(b), succ,
                    IF ~InList(Head(b), succ) /\ ~InList(Head(b), f)
                      THEN Append(f, Head(b)) ELSE f)

\* except Exception as e: the handler reads batch, which is unbound when the error
\* came before the first slice was taken: the handler itself then raises
Except ==
    /\ bpc = "except"
    /\ UNCHANGED <<nonbatch, tab_pages, loop>>
    /\ IF ~batch_bound
         THEN /\ exc' = "NameError"
              /\ UNCHANGED failed
         ELSE /\ exc' = "none"
              /\ failed' = MarkFailed(batch, successful, failed)
    /\ bpc' = "finally"
    /\ UNCHANGED <<inputs, successful, slicing, browser, tabs, locals, exc_at, faults,
                   results_file>>

\* finally: if form_filler and form_filler.driver: form_filler.driver.quit()
\*          kill_chrome()
\* and then the next iteration, or the exception in flight leaves process_batch
Finally ==
    /\ bpc = "finally"
    /\ UNCHANGED <<nonbatch, loop>>
    /\ tab_pages' = <<>>
    /\ ctor_session' = IF form_filler = "obj" THEN QuitCtor(driver, ctor_session)
                       ELSE ctor_session
    /\ setup_session' = IF form_filler = "obj" THEN QuitSetup(driver, setup_session)
                        ELSE setup_session
    /\ chrome' = kill_chrome(chrome)
    /\ bpc' = IF exc = "none" THEN "while" ELSE "raised"
    /\ UNCHANGED <<inputs, lists, slicing, form_filler, driver, orphans, tabs, locals,
                   error, results_file>>

\* The rows main() writes: successful_numbers + failed_numbers with their status
ResultRows(succ, f) ==
    [k \in 1..Len(succ) |-> <<succ[k], "success">>]
      \o [k \in 1..Len(f) |-> <<f[k], "failed">>]

\* main(): results_df.to_excel('form_results.xlsx'); finally kill_chrome()
SaveResults ==
    /\ bpc = "returned"
    /\ UNCHANGED <<nonbatch, tab_pages, loop>>
    /\ results_file' = ResultRows(successful, failed)
    /\ chrome' = kill_chrome(chrome)
    /\ bpc' = "saved"
    /\ UNCHANGED <<inputs, lists, slicing, form_filler, driver, ctor_session,
                   setup_session, orphans, tabs, locals, error>>

\* main(): except Exception: the error is logged and no results file is written
MainExcept ==
    /\ bpc = "raised"
    /\ UNCHANGED <<nonbatch, tab_pages, loop>>
    /\ chrome' = kill_chrome(chrome)
    /\ bpc' = "main_failed"
    /\ UNCHANGED <<inputs, lists, slicing, form_filler, driver, ctor_session,
                   setup_session, orphans, tabs, locals, error, results_file>>

BNext ==
    \/ While \/ Ctor \/ Setup \/ Slice \/ OpenTabs \/ Navigate \/ Fill
    \/ SubmitSwitch \/ ClickNext \/ WaitPopup \/ ClickPopup \/ Progress
    \/ Except \/ Finally \/ SaveResults \/ MainExcept

\* The start of the program, the other programs at rest
BatchInit == BInit /\ RIdle /\ SIdle /\ FIdle /\ AIdle /\ MIdle /\ DIdle /\ CIdle

BatchSpec == BatchInit /\ [][BNext]_vars

----------------------------------------------------------------------------
\* Strings are sequences of one-character strings.

UpperChars == <<"A", "B", "C", "D", "E", "F", "G", "H", "I", "J", "K", "L", "M",
                "N", "O", "P", "Q", "R", "S", "T", "U", "V", "W", "X", "Y", "Z">>
LowerChars == <<"a", "b", "c", "d", "e", "f", "g", "h", "i", "j", "k", "l", "m",
                "n", "o", "p", "q", "r", "s", "t", "u", "v", "w", "x", "y", "z">>
DigitChars == {"0", "1", "2", "3", "4", "5", "6", "7", "8", "9"}

IsUpper(c) == \E k \in 1..26 : UpperChars[k] = c
IsLower(c) == \E k \in 1..26 : LowerChars[k] = c

\* str.lower(), one character
LowerChar(c) ==
    IF IsUpper(c) THEN LowerChars[CHOOSE k \in 1..26 : UpperChars[k] = c] ELSE c

\* text.lower(); also XPath translate(text(), 'ABC...Z', 'abc...z')
Lower(s) == [k \in 1..Len(s) |-> LowerChar(s[k])]

\* [a-zA-Z0-9]
IsAlnum(c) == IsUpper(c) \/ IsLower(c) \/ c \in DigitChars

\* re.sub(r'[^a-zA-Z0-9]', '', s): the characters of s that are kept, in order
RECURSIVE KeepAlnum(_)
KeepAlnum(s) ==
    IF s = <<>> THEN <<>>
    ELSE IF IsAlnum(Head(s)) THEN <<Head(s)>> \o KeepAlnum(Tail(s))
    ELSE KeepAlnum(Tail(s))

\* normalize_string(text)
normalize_string(text) == KeepAlnum(Lower(text))

\* Python's `sub in s`, XPath's contains(s, sub): true for an empty sub
Contains(s, sub) ==
    \E k \in 0..(Len(s) - Len(sub)) : SubSeq(s, k + 1, k + Len(sub)) = sub

\* strings_similar(str1, str2)
strings_similar(str1, str2) ==
    LET norm1 == normalize_string(str1)
        norm2 == normalize_string(str2)
    IN  Contains(norm2, norm1) \/ Contains(norm1, norm2)

\* CSS [attr*='sub']: a substring match that an empty sub never satisfies
CssContains(attr, sub) == sub # <<>> /\ Contains(attr, sub)

\* The label is pasted between single quotes into every selector: a label with a
\* single quote makes the selector invalid (InvalidSelectorException)
SelectorInvalid(label) == \E k \in 1..Len(label) : label[k] = "'"

----------------------------------------------------------------------------
\* The page: a flat sequence of nodes in document order (all siblings). An
\* absent attribute is the empty string.

Node(tag, type, text, for, attr, val, displayed, enabled) ==
    [tag |-> tag, type |-> type, text |-> text, for |-> for,
     name        |-> IF attr = "name" THEN val ELSE <<>>,
     id          |-> IF attr = "id" THEN val ELSE <<>>,
     placeholder |-> IF attr = "placeholder" THEN val ELSE <<>>,
     aria        |-> IF attr = "aria-label" THEN val ELSE <<>>,
     class       |-> IF attr = "class" THEN val ELSE <<>>,
     data_test   |-> IF attr = "data-testid" THEN val ELSE <<>>,
     required |-> FALSE, aria_required |-> FALSE,
     displayed |-> displayed, enabled |-> enabled]

IsField(n) == n.tag \in {"input", "select", "textarea"}

\* Strategies 1..8 of find_field_by_multiple_strategies: whether node k of the
\* page is selected by the strategy's selector for the label
Matches(s, page, label, k) ==
    LET n == page[k] IN
    CASE s = 1 ->   \* label[for*='L'] + input, ... + select, ... + textarea
           /\ IsField(n)
           /\ k > 1
           /\ page[k - 1].tag = "label"
           /\ CssContains(page[k - 1].for, label)
      [] s = 2 ->   \* //label[contains(translate(text(), ...), 'l')]//following::input[1]
           /\ n.tag = "input"
           /\ \E j \in 1..(k - 1) :
                 /\ page[j].tag = "label"
                 /\ Contains(Lower(page[j].text), Lower(label))
                 /\ \A m \in (j + 1)..(k - 1) : page[m].tag # "input"
      [] s = 3 ->   \* input[placeholder*='L'], textarea[placeholder*='L']
           /\ n.tag \in {"input", "textarea"}
           /\ CssContains(n.placeholder, label)
      [] s = 4 ->   \* input[name*='L'], input[id*='L'], textarea[...]
           /\ n.tag \in {"input", "textarea"}
           /\ (CssContains(n.name, label) \/ CssContains(n.id, label))
      [] s = 5 ->   \* input[aria-label*='L'], textarea[aria-label*='L']
           /\ n.tag \in {"input", "textarea"}
           /\ CssContains(n.aria, label)
      [] s = 6 ->   \* input[class*='L'], textarea[class*='L']
           /\ n.tag \in {"input", "textarea"}
           /\ CssContains(n.class, label)
      [] s = 7 ->   \* //*[contains(text(), 'L')]/following::input[1]
           /\ n.tag = "input"
           /\ \E j \in 1..(k - 1) :
                 /\ Contains(page[j].text, label)
                 /\ \A m \in (j + 1)..(k - 1) : page[m].tag # "input"
      [] s = 8 ->   \* input[data-testid*='L'], input[data-test*='L'], input[data-qa*='L']
           /\ n.tag = "input"
           /\ CssContains(n.data_test, label)

\* driver.find_element(by, selector): the first node selected, in document order;
\* 0 stands for NoSuchElementException
find_element(s, page, label) ==
    IF \E k \in 1..Len(page) : Matches(s, page, label, k)
      THEN CHOOSE k \in 1..Len(page) :
              /\ Matches(s, page, label, k)
              /\ \A j \in 1..(k - 1) : ~Matches(s, page, label, j)
      ELSE 0

\* if field and field.is_displayed() and field.is_enabled()
Usable(page, k) == k # 0 /\ page[k].displayed /\ page[k].enabled

\* driver.find_elements(By.CSS_SELECTOR, "input:not([type='hidden']), textarea, select")
IsCandidate(n) == IsField(n) /\ ~(n.tag = "input" /\ n.type = "hidden")

\* The nearby labels of a candidate: //label[ancestor::*[...]] selects the labels
\* that have the candidate itself as an ancestor; a field holds no label
nearby_labels(page, k) == <<>>

\* The fuzzy test on one candidate: an attribute that strings_similar accepts, or
\* the text of a nearby label
FuzzyAccepts(page, label, k) ==
    \/ \E v \in {page[k].name, page[k].id, page[k].placeholder, page[k].aria} :
          v # <<>> /\ strings_similar(label, v)
    \/ \E j \in 1..Len(nearby_labels(page, k)) :
          strings_similar(label, nearby_labels(page, k)[j])

\* The fuzzy pass: the first candidate accepted, in document order; 0 for None
fuzzy_match(page, label) ==
    IF \E k \in 1..Len(page) : IsCandidate(page[k]) /\ FuzzyAccepts(page, label, k)
      THEN CHOOSE k \in 1..Len(page) :
              /\ IsCandidate(page[k]) /\ FuzzyAccepts(page, label, k)
              /\ \A j \in 1..(k - 1) :
                    ~(IsCandidate(page[j]) /\ FuzzyAccepts(page, label, j))
      ELSE 0


----------------------------------------------------------------------------
\* Properties of process_batch / main

\* Occurrences of x in list s
Count(x, s) == Cardinality({k \in 1..Len(s) : s[k] = x})

\* The steps of an iteration that come after its numbers were selected
InBatchSteps == {"open_tabs", "navigate", "fill", "submit_switch"}

\* C1: when process_batch has returned, every input entry is recorded exactly
\* once: len(successful) + len(failed) is the number of inputs, every number
\* occurs in successful + failed as often as in the input, and the results file
\* holds one row per input.
C1_EachInputRecordedOnce ==
    bpc \in {"returned", "saved"} =>
       /\ Len(successful) + Len(failed) = Len(phone_numbers)
       /\ \A k \in 1..Len(phone_numbers) :
             Count(phone_numbers[k], successful \o failed)
               = Count(phone_numbers[k], phone_numbers)
       /\ (bpc = "saved" => Len(results_file) = Len(phone_numbers))

\* C2: the batches are consecutive, non-overlapping slices of the input taken in
\* input order; the first holds min(20, N) numbers and every later one
\* min(max_tabs, numbers still remaining).
C2_BatchSlices ==
    batches_taken >= 1 =>
       LET n == Len(phone_numbers)
           b == Len(batch)
           before == n - Len(remaining_numbers) - b
       IN  /\ before >= 0
           /\ batch = SubSeq(phone_numbers, before + 1, before + b)
           /\ remaining_numbers = SubSeq(phone_numbers, before + b + 1, n)
           /\ (batches_taken = 1 => before = 0 /\ b = Min(FirstBatchSize, n))
           /\ (batches_taken > 1 => before > 0 /\ b = Min(max_tabs, n - before))

\* C2 witness: 22 numbers, max_tabs 20: a first batch of 20 and a second of 2
C2_Witness ==
    /\ batches_taken = 2
    /\ Len(phone_numbers) = 22
    /\ max_tabs = DefaultMaxTabs
    /\ Len(batch) = 2
    /\ remaining_numbers = <<>>

\* C3: a number is recorded successful only by the click on a confirmation
\* control that became clickable in its own tab after the submit click was
\* dispatched; every other outcome of the tab (no submit button, wait timed out,
\* any exception) records the number failed.
C3_SuccessOnlyIfConfirmed ==
    [][ /\ (successful' # successful =>
              /\ bpc = "click_popup"
              /\ next_button = "true"
              /\ popup_btn = "clickable"
              /\ active_tab = tab
              /\ successful' = Append(successful, batch[tab]))
        /\ (/\ bpc \in {"click_next", "wait_popup", "click_popup"}
            /\ bpc' \in {"submit_switch", "progress"}
            /\ successful' = successful
            => failed' = Append(failed, batch[tab]))
        /\ (bpc = "except" /\ exc_at = "submit_switch"
            => InList(batch[tab], failed')) ]_vars

\* C4: a failure to establish the browser (constructor or setup_driver), on the
\* first batch or a later one, never makes process_batch fail.
C4_SetupFailureRecovered ==
    exc_at \in {"ctor", "setup"} => bpc \notin {"raised", "main_failed"}

\* C5: between two iterations, and when process_batch returns or raises, the
\* session form_filler.driver refers to has been quit and no browser process is
\* alive.
C5_TornDownAfterEveryBatch ==
    bpc \in {"while", "ctor", "returned", "raised"} =>
       /\ chrome = {}
       /\ (driver = "ctor" => ctor_session # "open")
       /\ (driver = "setup" => setup_session # "open")

\* C5 witness: an iteration ended by an error in the middle of the batch, torn
\* down, with numbers left for a next batch
C5_Witness ==
    /\ bpc = "while"
    /\ exc_at = "fill"
    /\ driver = "setup"
    /\ setup_session = "quit"
    /\ remaining_numbers # <<>>

\* C6: an error after the batch was selected is not fatal: the handler records
\* failed exactly the numbers of the batch with no recorded outcome, each once,
\* leaves the recorded ones as they are, and the run goes on to the next
\* iteration.
C6_BatchErrorIsNonFatal ==
    [][ /\ (bpc = "except" /\ exc_at \in InBatchSteps =>
              /\ successful' = successful
              /\ Len(failed') >= Len(failed)
              /\ SubSeq(failed', 1, Len(failed)) = failed
              /\ \A t \in 1..Len(batch) :
                    InList(batch[t], successful) \/ InList(batch[t], failed')
              /\ \A k \in (Len(failed) + 1)..Len(failed') :
                    /\ InList(failed'[k], batch)
                    /\ ~InList(failed'[k], successful)
                    /\ ~InList(failed'[k], failed)
                    /\ Count(failed'[k], failed') = 1
              /\ exc' = "none")
        /\ (bpc = "finally" /\ exc_at \in InBatchSteps => bpc' = "while") ]_vars

\* C6 witness: the handler has run after the switch to a later tab of the submit
\* pass failed, one number of the batch being recorded successful already
C6_Witness ==
    /\ bpc = "finally"
    /\ exc_at = "submit_switch"
    /\ Len(batch) = FirstBatchSize
    /\ Len(successful) = 1
    /\ Len(failed) = FirstBatchSize - 1

----------------------------------------------------------------------------
\* Pages and labels given to the resolver

L_ab == <<"a", "b">>
L_Ab == <<"A", "b">>
L_quote == <<"a", "'", "b">>
L_punct == <<"*", "-">>
L_zz == <<"z", "z">>
Labels == {L_ab, L_Ab, L_quote, L_punct, L_zz}

V_ab == <<"a", "b">>
V_xab == <<"x", "a", "b">>
V_a_b == <<"a", "-", "b">>
V_q == <<"q">>

NodeTemplates ==
    { Node("label", <<>>, L_Ab, V_ab, "none", <<>>, TRUE, TRUE),
      Node("label", <<>>, L_Ab, V_q, "none", <<>>, TRUE, TRUE),
      Node("select", "select-one", <<>>, <<>>, "id", V_q, TRUE, TRUE),
      Node("span", <<>>, V_xab, <<>>, "none", <<>>, TRUE, TRUE),
      Node("input", "text", <<>>, <<>>, "none", <<>>, TRUE, TRUE),
      Node("input", "hidden", <<>>, <<>>, "name", V_ab, FALSE, TRUE),
      Node("input", "text", <<>>, <<>>, "placeholder", V_ab, TRUE, TRUE),
      Node("input", "text", <<>>, <<>>, "placeholder", V_ab, FALSE, TRUE),
      Node("input", "text", <<>>, <<>>, "class", V_xab, TRUE, TRUE),
      Node("input", "text", <<>>, <<>>, "class", V_xab, TRUE, FALSE),
      Node("input", "text", <<>>, <<>>, "name", V_a_b, TRUE, TRUE),
      Node("input", "text", <<>>, <<>>, "aria-label", V_ab, TRUE, TRUE),
      Node("input", "text", <<>>, <<>>, "data-testid", V_xab, TRUE, TRUE),
      Node("select", "select-one", <<>>, <<>>, "id", V_ab, TRUE, TRUE),
      Node("textarea", "textarea", <<>>, <<>>, "name", V_xab, TRUE, TRUE) }

Pages == UNION { [1..n -> NodeTemplates] : n \in 0..MaxNodes }

\* One turn of the strategy loop: the element returned, or 0 to continue
strategy_result_unchecked(s, page, label) == find_element(s, page, label)
strategy_result(s, page, label) ==
    LET k == find_element(s, page, label) IN
    IF Usable(page, k) THEN k ELSE 0

\* A call find_field_by_multiple_strategies(label) on a loaded page (self.driver
\* and self.wait are set: fill_form checks them before it calls)
RInit ==
    /\ rpc = "strategies"
    /\ rpage \in Pages
    /\ rlabel \in Labels
    /\ strategy = 1
    /\ rresult = NoResult

\* for by, selector in strategies: one turn of the loop
\*     field = driver.find_element(by, selector)
\*     if field and field.is_displayed() and field.is_enabled(): return field
\* except (NoSuchElementException, ElementNotInteractableException): continue
TryStrategy ==
    /\ rpc = "strategies"
    /\ UNCHANGED nonresolve
    /\ \/ /\ SelectorInvalid(rlabel)     \* InvalidSelectorException: not caught
          /\ rresult' = Raised
          /\ rpc' = "done"
          /\ UNCHANGED strategy
       \/ /\ ~SelectorInvalid(rlabel)    \* any other driver error: not caught
          /\ rresult' = Raised
          /\ rpc' = "done"
          /\ UNCHANGED strategy
       \/ /\ ~SelectorInvalid(rlabel)
          /\ LET k == strategy_result(strategy, rpage, rlabel) IN
             IF k # 0
               THEN /\ rresult' = Found(k)
                    /\ rpc' = "done"
                    /\ UNCHANGED strategy
               ELSE /\ UNCHANGED rresult
                    /\ IF strategy < 8
                         THEN strategy' = strategy + 1 /\ UNCHANGED rpc
                         ELSE rpc' = "fuzzy" /\ UNCHANGED strategy
    /\ UNCHANGED <<rpage, rlabel>>

\* The fuzzy pass over all inputs, inside try ... except Exception, and return None
FuzzyFallback ==
    /\ rpc = "fuzzy"
    /\ UNCHANGED nonresolve
    /\ \/ LET k == fuzzy_match(rpage, rlabel) IN
          rresult' = IF k = 0 THEN NotFound ELSE Found(k)
       \/ rresult' = NotFound            \* a driver error, caught and logged
    /\ rpc' = "done"
    /\ UNCHANGED <<rpage, rlabel, strategy>>

RNext == TryStrategy \/ FuzzyFallback

\* The batch program at rest
BIdle ==
    /\ bpc = "idle"
    /\ phone_numbers = <<>>
    /\ max_tabs = DefaultMaxTabs
    /\ remaining_numbers = <<>>
    /\ successful = <<>>
    /\ failed = <<>>
    /\ batch = <<>>
    /\ batch_bound = FALSE
    /\ form_filler = "None"
    /\ driver = "None"
    /\ ctor_session = "none"
    /\ setup_session = "none"
    /\ chrome = {}
    /\ orphans = 0
    /\ tab = 0
    /\ active_tab = 0
    /\ tab_pages = <<>>
    /\ next_button = "unset"
    /\ popup_btn = "unset"
    /\ exc = "none"
    /\ exc_at = "none"
    /\ batches_taken = 0
    /\ iterations = 0
    /\ remaining_at_entry = 0
    /\ faults = 0
    /\ results_file = <<>>

\* The start of the program, the other programs at rest
ResolveInit == RInit /\ BIdle /\ SIdle /\ FIdle /\ AIdle /\ MIdle /\ DIdle /\ CIdle

ResolveSpec == ResolveInit /\ [][RNext]_vars

----------------------------------------------------------------------------
\* Properties of find_field_by_multiple_strategies

\* Some strategy's selector selects node k, which is displayed and enabled
UsableMatch(page, label, k) ==
    /\ \E s \in 1..8 : Matches(s, page, label, k)
    /\ page[k].displayed
    /\ page[k].enabled

\* C9: when some displayed and enabled element of the page matches the label by
\* one of the eight strategies (also behind a hidden or disabled element that
\* the same selector selects first), the resolver returns such an element and
\* not None.
C9_MatchIsResolved ==
    (/\ rpc = "done"
     /\ rresult.kind # "raised"
     /\ \E k \in 1..Len(rpage) : UsableMatch(rpage, rlabel, k))
    => /\ rresult.kind = "found"
       /\ UsableMatch(rpage, rlabel, rresult.elem)

\* C10: when nothing on the page matches the label, by a strategy or by the
\* fuzzy rule, the resolver returns None and raises nothing, whatever the label
\* holds and whatever the driver answers.
C10_NoMatchGivesNotFound ==
    (/\ rpc = "done"
     /\ \A k \in 1..Len(rpage) :
           /\ \A s \in 1..8 : ~Matches(s, rpage, rlabel, k)
           /\ ~(IsCandidate(rpage[k]) /\ FuzzyAccepts(rpage, rlabel, k)))
    => rresult = NotFound

----------------------------------------------------------------------------
\* form_filler.py: the sequential session, FormFiller.fill_form as main calls it
\* (after load_excel_data returned True and setup_driver returned)

\* str.replace(old, ''): every occurrence of old removed, left to right
RECURSIVE Remove(_, _)
Remove(str, old) ==
    IF Len(str) < Len(old) THEN str
    ELSE IF SubSeq(str, 1, Len(old)) = old
           THEN Remove(SubSeq(str, Len(old) + 1, Len(str)), old)
           ELSE <<str[1]>> \o Remove(Tail(str), old)

clean_field_name(field_name) == Remove(field_name, <<" ", "*">>)

\* The whole of find_field_by_multiple_strategies when the driver answers every
\* lookup: the strategies in order, then the fuzzy pass
RECURSIVE strategies_from(_, _, _)
strategies_from(s, page, label) ==
    IF s > 8
      THEN LET k == fuzzy_match(page, label) IN
           IF k = 0 THEN NotFound ELSE Found(k)
      ELSE LET k == strategy_result(s, page, label) IN
           IF k # 0 THEN Found(k) ELSE strategies_from(s + 1, page, label)

find_field_by_multiple_strategies(page, label) ==
    IF SelectorInvalid(label) THEN Raised ELSE strategies_from(1, page, label)

\* Column names of a template (pandas keeps them distinct) and its cells: NaN
\* for an empty cell, else the text str(value) gives
ColumnNames == { L_ab \o <<" ", "*">>, L_Ab, L_quote, L_zz }
CellValues == {"nan", "", "v", "w"}

\* The page as driver.get(self.url) loads it: every field empty
fresh_values(page) == [k \in 1..Len(page) |-> ""]
Forms == { <<Node("input", "text", <<>>, <<>>, "placeholder", V_ab, TRUE, TRUE)>>,
           <<Node("label", <<>>, L_Ab, V_ab, "none", <<>>, TRUE, TRUE),
             Node("select", "select-one", <<>>, <<>>, "id", V_ab, TRUE, TRUE)>> }

total_rows == Len(df)

SInit ==
    /\ spc = "start"
    /\ \E c \in 1..MaxCols :
          /\ columns \in [1..c -> ColumnNames]
          /\ \A i, j \in 1..c : columns[i] = columns[j] => i = j
          /\ \E n \in 1..MaxRows : df \in [1..n -> [1..c -> CellValues]]
    /\ form \in Forms
    /\ idx = 0
    /\ col = 0
    /\ field = 0
    /\ field_page = 0
    /\ page_state = "blank"
    /\ navigations = 0
    /\ fill_passes = {}
    /\ submit_calls = {}
    /\ edge = "open"
    /\ sexc_at = "none"
    /\ values = fresh_values(form)
    /\ resolved = {}
    /\ written = {}
    /\ fill_failures = {}

\* self.driver.get(self.url) before the row loop
InitialGet ==
    /\ spc = "start"
    /\ UNCHANGED nonsession
    /\ \/ /\ page_state' = "loaded"
          /\ values' = fresh_values(form)
          /\ navigations' = navigations + 1
          /\ spc' = "columns"
          /\ UNCHANGED sexc_at
       \/ /\ sexc_at' = "get"            \* the driver raises
          /\ spc' = "except"
          /\ UNCHANGED <<page_state, navigations, values>>
    /\ UNCHANGED <<columns, df, form, idx, col, field, fill_passes, submit_calls, edge>>
    /\ UNCHANGED slog

\* for field_name in df.columns: value = row[field_name]; skip if pd.isna(value)
NextColumn ==
    /\ spc = "columns"
    /\ UNCHANGED nonsession
    /\ IF col < Len(columns)
         THEN /\ col' = col + 1
              /\ spc' = IF df[idx + 1][col + 1] = "nan" THEN "columns" ELSE "resolve"
              /\ UNCHANGED fill_passes
         ELSE /\ fill_passes' = fill_passes \cup {idx}
              /\ spc' = "submit"
              /\ UNCHANGED col
    /\ UNCHANGED <<columns, df, form, idx, field, page_state, navigations,
                   submit_calls, edge, sexc_at, values>>
    /\ UNCHANGED slog

\* field = self.find_field_by_multiple_strategies(clean_field_name)
Resolve ==
    /\ spc = "resolve"
    /\ UNCHANGED nonsession
    /\ LET r == find_field_by_multiple_strategies(form, clean_field_name(columns[col])) IN
       \/ /\ r.kind = "raised"
          /\ sexc_at' = "resolve"
          /\ spc' = "except"
          /\ UNCHANGED field
       \/ /\ r.kind # "raised"           \* a lookup raises another driver error
          /\ sexc_at' = "resolve"
          /\ spc' = "except"
          /\ UNCHANGED field
       \/ /\ r.kind = "found"
          /\ field' = r.elem
          /\ spc' = "fill_field"
          /\ UNCHANGED sexc_at
       \/ /\ r.kind = "none"             \* logged: Could not find field
          /\ field' = 0
          /\ spc' = "columns"
          /\ UNCHANGED sexc_at
    /\ field_page' = IF spc' = "fill_field" THEN navigations ELSE field_page
    /\ resolved' = resolved \cup {<<idx, col>>}
    /\ UNCHANGED <<columns, df, form, idx, col, page_state, navigations,
                   fill_passes, submit_calls, edge, values, written, fill_failures>>

\* self.fill_field(field, value, clean_field_name). An empty str_value returns
\* at once. Otherwise the element is written to; every exception is caught
\* inside, before the element was touched or after it was cleared.
fill_field ==
    /\ spc = "fill_field"
    /\ UNCHANGED nonsession
    /\ LET cell == df[idx + 1][col] IN
       IF cell = ""
         THEN UNCHANGED <<values, page_state, written, fill_failures>>
         ELSE \/ /\ values' = [values EXCEPT ![field] = cell]
                 /\ page_state' = "dirty"
                 /\ written' = written \cup {<<idx, col>>}
                 /\ UNCHANGED fill_failures
              \/ /\ fill_failures' = fill_failures \cup {<<idx, col>>}
                 /\ UNCHANGED <<values, page_state, written>>
              \/ /\ values' = [values EXCEPT ![field] = ""]
                 /\ page_state' = "dirty"
                 /\ written' = written \cup {<<idx, col>>}
                 /\ fill_failures' = fill_failures \cup {<<idx, col>>}
    /\ spc' = "columns"
    /\ UNCHANGED <<columns, df, form, idx, col, field, field_page, navigations,
                   fill_passes, submit_calls, edge, sexc_at, resolved>>

\* if self.submit_form(): ... else: ...   and the step of the row loop.
\* submit_form tries its five strategies in order, catching every exception,
\* and returns True at the first that works, False when none does.
submit_form ==
    /\ spc = "submit"
    /\ UNCHANGED nonsession
    /\ submit_calls' = submit_calls \cup {idx}
    /\ \E worked \in 0..5 :
          IF worked # 0
            THEN /\ page_state' = "submitted"
                 /\ IF idx < total_rows - 1
                      THEN spc' = "navigate" /\ UNCHANGED <<idx, col>>
                      ELSE spc' = "finally" /\ idx' = idx + 1 /\ col' = 0
            ELSE /\ UNCHANGED page_state
                 /\ idx' = idx + 1
                 /\ col' = 0
                 /\ spc' = IF idx + 1 < total_rows THEN "columns" ELSE "finally"
    /\ UNCHANGED <<columns, df, form, field, navigations, fill_passes, edge, sexc_at,
                   values>>
    /\ UNCHANGED slog

\* self.driver.get(self.url) after a submission, when more rows remain
NextRowGet ==
    /\ spc = "navigate"
    /\ UNCHANGED nonsession
    /\ \/ /\ page_state' = "loaded"
          /\ values' = fresh_values(form)
          /\ navigations' = navigations + 1
          /\ idx' = idx + 1
          /\ col' = 0
          /\ spc' = "columns"
          /\ UNCHANGED sexc_at
       \/ /\ sexc_at' = "get"            \* the driver raises
          /\ spc' = "except"
          /\ UNCHANGED <<page_state, navigations, idx, col, values>>
    /\ UNCHANGED <<columns, df, form, field, fill_passes, submit_calls, edge>>
    /\ UNCHANGED slog

\* except Exception as e: logging.error(...)
SExcept ==
    /\ spc = "except"
    /\ UNCHANGED nonsession
    /\ spc' = "finally"
    /\ UNCHANGED <<columns, df, form, idx, col, field, page_state, navigations,
                   fill_passes, submit_calls, edge, sexc_at, values>>
    /\ UNCHANGED slog

\* Mutant: the driver is quit at the end of the try block, not in a finally clause
SFinally_after_try_only ==
    /\ spc = "finally"
    /\ UNCHANGED nonsession
    /\ edge' = IF sexc_at = "none" THEN "quit" ELSE edge
    /\ spc' = "done"
    /\ UNCHANGED <<columns, df, form, idx, col, field, page_state, navigations,
                   fill_passes, submit_calls, sexc_at, values>>
    /\ UNCHANGED slog

\* finally: if self.driver: self.driver.quit()
SFinally ==
    /\ spc = "finally"
    /\ UNCHANGED nonsession
    /\ edge' = "quit"
    /\ spc' = "done"
    /\ UNCHANGED <<columns, df, form, idx, col, field, page_state, navigations,
                   fill_passes, submit_calls, sexc_at, values>>
    /\ UNCHANGED slog

SNext ==
    \/ InitialGet
    \/ NextColumn
    \/ Resolve
    \/ fill_field
    \/ submit_form
    \/ NextRowGet
    \/ SExcept
    \/ SFinally

\* The start of the program, the other programs at rest
SessionInit == SInit /\ BIdle /\ RIdle /\ FIdle /\ AIdle /\ MIdle /\ DIdle /\ CIdle

SessionSpec == SessionInit /\ [][SNext]_vars

----------------------------------------------------------------------------
\* form_filler.py: fill_field and safe_send_keys on one element, called twice
\* in a row with the same value

S_on == <<"o", "n">>
S_On == <<"O", "n">>
S_no == <<"n", "o">>
S_1 == <<"1">>
S_yes == <<"y", "e", "s">>
S_true == <<"t", "r", "u", "e">>

\* ('true', 'yes', '1', 'on')
TruthyValues == {S_true, S_yes, S_1, S_on}

\* str_value.lower() in ('true', 'yes', '1', 'on')
desired_state_case_sensitive(v) == v \in TruthyValues
desired_state(v) == Lower(v) \in TruthyValues

\* if current_state != desired_state
needs_click_always(current, desired) == TRUE
needs_click(current, desired) == current # desired

\* if actual_value == value
verified_unchecked(actual, value) == TRUE
verified(actual, value) == actual = value

FieldTypes == {"text", "select-one", "checkbox", "radio"}
FillValues == {<<>>, S_on, S_On, S_no, S_1, S_yes}
OldValues == {<<>>, <<"x">>}
OptionLists == {<<>>, <<S_no, S_On, S_on>>, <<S_yes>>}

\* What the element can hold after an input method has run on it for value v
\* over the old content: v, v cut short by the element, or v after the old
\* content when clear() left it
Typed(v, old) == {v, SubSeq(v, 1, Len(v) - 1), old \o v}

FInit ==
    /\ fpc = "start"
    /\ call = 1
    /\ field_type \in FieldTypes
    /\ str_value \in FillValues
    /\ selected \in BOOLEAN
    /\ other_selected \in IF field_type = "radio" /\ ~selected THEN BOOLEAN ELSE {FALSE}
    /\ elem_value \in OldValues
    /\ options \in OptionLists
    /\ chosen = 0
    /\ forced = FALSE
    /\ attempt = 0
    /\ actual_value = <<>>
    /\ ssk = "none"
    /\ clicks = 0
    /\ caught = FALSE
    /\ first = [selected |-> FALSE, caught |-> FALSE]

\* if not str_value: return;  field_type = field.get_attribute('type')
FStart ==
    /\ fpc = "start"
    /\ UNCHANGED nonfill
    /\ UNCHANGED other_selected
    /\ IF str_value = <<>>
         THEN fpc' = "return" /\ UNCHANGED caught
         ELSE \/ /\ fpc' = CASE field_type = "select-one" -> "select"
                            [] field_type = "checkbox" -> "checkbox"
                            [] field_type = "radio" -> "radio"
                            [] OTHER -> "attempt"
                 /\ UNCHANGED caught
              \/ /\ fpc' = "return"      \* get_attribute raises: caught, logged
                 /\ caught' = TRUE
    /\ UNCHANGED <<call, field_type, str_value, selected, elem_value, options, chosen,
                   forced, attempt, actual_value, ssk, clicks, first>>

\* The first option whose text strings_similar accepts for the value (0: none)
matching_option_last(opts, v) ==
    IF \E k \in 1..Len(opts) : strings_similar(opts[k], v)
      THEN CHOOSE k \in 1..Len(opts) :
              /\ strings_similar(opts[k], v)
              /\ \A j \in (k + 1)..Len(opts) : ~strings_similar(opts[j], v)
      ELSE 0
matching_option(opts, v) ==
    IF \E k \in 1..Len(opts) : strings_similar(opts[k], v)
      THEN CHOOSE k \in 1..Len(opts) :
              /\ strings_similar(opts[k], v)
              /\ \A j \in 1..(k - 1) : ~strings_similar(opts[j], v)
      ELSE 0

\* field_type == 'select-one': click the first similar option; with none, and
\* options present, set the value by script
FSelect ==
    /\ fpc = "select"
    /\ UNCHANGED nonfill
    /\ UNCHANGED other_selected
    /\ LET k == matching_option(options, str_value) IN
       \/ /\ k # 0
          /\ chosen' = k
          /\ elem_value' = options[k]
          /\ UNCHANGED <<forced, caught>>
       \/ /\ k = 0
          /\ options # <<>>
          /\ forced' = TRUE
          /\ elem_value' = str_value
          /\ UNCHANGED <<chosen, caught>>
       \/ /\ k = 0
          /\ options = <<>>
          /\ UNCHANGED <<chosen, forced, elem_value, caught>>
       \/ /\ caught' = TRUE              \* a driver call raises
          /\ UNCHANGED <<chosen, forced, elem_value>>
    /\ fpc' = "return"
    /\ UNCHANGED <<call, field_type, str_value, selected, options,
                   attempt, actual_value, ssk, clicks, first>>

\* field_type == 'checkbox'
FCheckbox ==
    /\ fpc = "checkbox"
    /\ UNCHANGED nonfill
    /\ UNCHANGED other_selected
    /\ \/ IF needs_click(selected, desired_state(str_value))
            THEN /\ clicks' = clicks + 1
                 /\ \/ selected' = ~selected /\ UNCHANGED caught
                    \/ caught' = TRUE /\ UNCHANGED selected    \* click raises
            ELSE UNCHANGED <<clicks, selected, caught>>
       \/ /\ caught' = TRUE              \* is_selected raises
          /\ UNCHANGED <<clicks, selected>>
    /\ fpc' = "return"
    /\ UNCHANGED <<call, field_type, str_value, elem_value, options, chosen,
                   forced, attempt, actual_value, ssk, first>>

\* if str_value.lower() in ('true', 'yes', '1', 'on'): field.click()
radio_clicks_always(v) == TRUE
radio_clicks(v) == desired_state(v)

\* field_type == 'radio'
FRadio ==
    /\ fpc = "radio"
    /\ UNCHANGED nonfill
    /\ IF radio_clicks(str_value)
         THEN /\ clicks' = clicks + 1
              /\ \/ /\ selected' = TRUE          \* the click selects the radio
                    /\ other_selected' = FALSE   \* and unsets the rest of its group
                    /\ UNCHANGED caught
                 \/ /\ caught' = TRUE            \* click raises
                    /\ UNCHANGED <<selected, other_selected>>
         ELSE UNCHANGED <<clicks, selected, other_selected, caught>>
    /\ fpc' = "return"
    /\ UNCHANGED <<call, field_type, str_value, elem_value, options, chosen,
                   forced, attempt, actual_value, ssk, first>>

\* for attempt in range(max_attempts): the attempt after attempt a
next_attempt_skipping(a) == a + 2
next_attempt(a) == a + 1

\* safe_send_keys, one attempt: click, clear, the input method of the attempt,
\* read the value back and return when it is the value; an exception anywhere
\* goes to the next attempt
Attempt ==
    /\ fpc = "attempt"
    /\ attempt < 3
    /\ UNCHANGED nonfill
    /\ UNCHANGED other_selected
    /\ \/ /\ \E now \in Typed(str_value, elem_value) :
                /\ elem_value' = now
                /\ actual_value' = now
                /\ IF verified(now, str_value)
                     THEN ssk' = "returned" /\ fpc' = "return" /\ UNCHANGED attempt
                     ELSE attempt' = next_attempt(attempt) /\ UNCHANGED <<ssk, fpc>>
       \/ /\ attempt' = next_attempt(attempt)      \* click or clear raises
          /\ UNCHANGED <<elem_value, actual_value, ssk, fpc>>
       \/ /\ attempt' = next_attempt(attempt)      \* the input or the read-back raises
          /\ elem_value' \in {<<>>} \cup Typed(str_value, <<>>)
          /\ UNCHANGED <<actual_value, ssk, fpc>>
    /\ UNCHANGED <<call, field_type, str_value, selected, options, chosen,
                   forced, clicks, caught, first>>

\* raise ValueError(...) after the third attempt, caught by fill_field
GiveUp ==
    /\ fpc = "attempt"
    /\ attempt = 3
    /\ UNCHANGED nonfill
    /\ UNCHANGED other_selected
    /\ ssk' = "raised"
    /\ caught' = TRUE
    /\ fpc' = "return"
    /\ UNCHANGED <<call, field_type, str_value, selected, elem_value, options, chosen,
                   forced, attempt, actual_value, clicks, first>>

\* fill_field returns; the second call starts on the element as the first left it
FReturn ==
    /\ fpc = "return"
    /\ UNCHANGED nonfill
    /\ UNCHANGED other_selected
    /\ IF call = 1
         THEN /\ call' = 2
              /\ first' = [selected |-> selected, caught |-> caught]
              /\ fpc' = "start"
              /\ chosen' = 0
              /\ forced' = FALSE
              /\ attempt' = 0
              /\ actual_value' = <<>>
              /\ ssk' = "none"
              /\ clicks' = 0
              /\ caught' = FALSE
         ELSE /\ fpc' = "done"
              /\ UNCHANGED <<call, first, chosen, forced, attempt, actual_value, ssk,
                             clicks, caught>>
    /\ UNCHANGED <<field_type, str_value, selected, elem_value, options>>

FNext ==
    \/ FStart
    \/ FSelect
    \/ FCheckbox
    \/ FRadio
    \/ Attempt
    \/ GiveUp
    \/ FReturn

\* The start of the program, the other programs at rest
FillInit == FInit /\ BIdle /\ RIdle /\ SIdle /\ AIdle /\ MIdle /\ DIdle /\ CIdle

FillSpec == FillInit /\ [][FNext]_vars

----------------------------------------------------------------------------
\* Properties of fill_field and safe_send_keys

\* C12: whenever safe_send_keys completes successfully for a value, whichever
\* of the three attempts completed it, the value read back from the element at
\* that point is exactly the value.
C12_ReturnMeansReadBackEqual ==
    ssk = "returned"
    => /\ actual_value = str_value
       /\ elem_value = str_value
       /\ attempt \in 0..2

C12_Witness ==
    /\ ssk = "returned"
    /\ attempt = 2
    /\ call = 1
    /\ str_value = S_On
    /\ fpc = "return"

\* C13: checkbox fill is idempotent: after a first call that ran without an
\* exception, a second call with the same value issues no click and leaves the
\* checkbox in the state the first call left.
C13_CheckboxIdempotent ==
    (/\ field_type = "checkbox"
     /\ call = 2
     /\ ~first.caught)
    => /\ clicks = 0
       /\ selected = first.selected

C13_Witness ==
    /\ field_type = "checkbox"
    /\ fpc = "done"
    /\ str_value = S_On
    /\ ~first.caught
    /\ ~caught
    /\ selected

\* C14: a call of fill_field on a checkbox with a non-blank value issues a
\* click only when the current state differs from the desired one, and, when
\* it ran without an exception, leaves the checkbox selected exactly when the
\* lowercase form of the value is one of "true", "yes", "1", "on".
C14_CheckboxMatchesValue ==
    [][ fpc = "checkbox"
        => LET desired == Lower(str_value) \in {S_true, S_yes, S_1, S_on} IN
           /\ clicks' # clicks => selected # desired
           /\ ~caught' => selected' = desired
           /\ selected = desired => selected' = selected ]_vars

C14_Witness ==
    /\ field_type = "checkbox"
    /\ call = 1
    /\ fpc = "return"
    /\ str_value = S_On
    /\ clicks = 1
    /\ selected
    /\ ~caught

----------------------------------------------------------------------------
\* Properties of FormFiller.fill_form

\* C7: no failure while resolving, filling or submitting a row aborts the
\* session: when fill_form ends (every navigation having worked), every row of
\* the template has had its fill pass and its submit attempt.
C7_RowFailureDoesNotAbort ==
    (spc = "done" /\ sexc_at # "get")
    => /\ fill_passes = 0..(total_rows - 1)
       /\ submit_calls = 0..(total_rows - 1)

\* C8: the filling of every row starts from a page freshly loaded by a
\* navigation to the target URL, one navigation before the first row and one
\* between any two consecutive rows, whatever the previous submission gave.
C8_RowStartsOnFreshPage ==
    (spc = "columns" /\ col = 0)
    => /\ page_state = "loaded"
       /\ navigations = idx + 1

\* The resolver's answer for column c on the session's page, the driver
\* answering every lookup
column_result(c) ==
    find_field_by_multiple_strategies(form, clean_field_name(columns[c]))

\* The resolver returned None for column c of row i
ReturnedNotFound(i, c) ==
    /\ <<i, c>> \in resolved
    /\ column_result(c).kind = "none"
    /\ ~(sexc_at = "resolve" /\ idx = i /\ col = c)

\* C11: when the resolver returns None for one column of a row, nothing is
\* written for that column, and by the end of the session every remaining
\* present column of the row has been looked up and the row's submission has
\* been attempted.
C11_NotFoundSkipsOnlyTheField ==
    \A i \in 0..(total_rows - 1) : \A c \in 1..Len(columns) :
       ReturnedNotFound(i, c)
       => /\ <<i, c>> \notin written
          /\ spc = "done"
             => /\ \A c2 \in (c + 1)..Len(columns) :
                      df[i + 1][c2] # "nan" => <<i, c2>> \in resolved
                /\ i \in submit_calls

RECURSIVE fill_pass(_, _, _, _)
fill_pass(cols, row, page, vals) ==
    IF cols = <<>> THEN vals
    ELSE LET r == find_field_by_multiple_strategies(page, clean_field_name(Head(cols)))
             cell == Head(row)
         IN  IF cell = "nan" THEN fill_pass(Tail(cols), Tail(row), page, vals)
             ELSE IF r.kind = "raised" THEN vals
             ELSE IF r.kind = "found" /\ cell # ""
               THEN fill_pass(Tail(cols), Tail(row), page,
                              [vals EXCEPT ![r.elem] = cell])
               ELSE fill_pass(Tail(cols), Tail(row), page, vals)

ColumnOrders(n) == {p \in [1..n -> 1..n] : \A i, j \in 1..n : p[i] = p[j] => i = j}

Permuted(seq, p) == [k \in 1..Len(seq) |-> seq[p[k]]]

\* C16: the column order is irrelevant to filling: the values the page holds
\* after the fill pass of a row (on a freshly loaded page, every write having
\* worked) are the values any permutation of the columns gives.
C16_ColumnOrderIrrelevant ==
    (/\ spc = "submit"
     /\ navigations = idx + 1
     /\ \A c \in 1..Len(columns) : <<idx, c>> \notin fill_failures)
    => /\ values = fill_pass(columns, df[idx + 1], form, fresh_values(form))
       /\ \A p \in ColumnOrders(Len(columns)) :
             fill_pass(Permuted(columns, p), Permuted(df[idx + 1], p), form,
                       fresh_values(form)) = values

----------------------------------------------------------------------------
\* form_analyzer.py: main, analyze_form, get_field_info, create_excel_template

\* str.strip() (of spaces)
RECURSIVE StripLeft(_)
StripLeft(str) ==
    IF str # <<>> /\ Head(str) = " " THEN StripLeft(Tail(str)) ELSE str

RECURSIVE StripRight(_)
StripRight(str) ==
    IF str # <<>> /\ str[Len(str)] = " "
      THEN StripRight(SubSeq(str, 1, Len(str) - 1))
      ELSE str

Strip(str) == StripRight(StripLeft(str))

\* element.text: the rendered text, empty for an element that is not displayed
rendered_text(n) == IF n.displayed THEN n.text ELSE <<>>

\* The first element a selector selects among the nodes in ks (0:
\* NoSuchElementException)
FirstOf(ks) == IF ks = {} THEN 0 ELSE CHOOSE k \in ks : \A m \in ks : k <= m

\* find_label_text(field): label[for='id'], else an ancestor label (the nodes of
\* the page are siblings: there is none), else the first label child of the
\* parent; the text of the first of these that exists, stripped
find_label_text(page, k) ==
    LET labels == {j \in 1..Len(page) : page[j].tag = "label"}
        by_for == IF page[k].id # <<>>
                    THEN FirstOf({j \in labels : page[j].for = page[k].id})
                    ELSE 0
        sibling == FirstOf(labels)
    IN  IF by_for # 0 THEN Strip(rendered_text(page[by_for]))
        ELSE IF sibling # 0 THEN Strip(rendered_text(page[sibling]))
        ELSE <<>>

\* a or b
OrElse(a, b) == IF a # <<>> THEN a ELSE b

\* Mutant: the placeholder is preferred to the label text
get_field_info_placeholder_first(page, k) ==
    LET n == page[k]
        field_id == n.id
        field_name == OrElse(n.name, field_id)
        label == find_label_text(page, k)
    IN  [name |-> field_name,
         field_type |-> IF n.type = "" THEN "text" ELSE n.type,
         label |-> OrElse(n.placeholder, OrElse(label, OrElse(field_name, field_id))),
         required |-> n.required \/ n.aria_required,
         elem |-> k]

\* get_field_info(field) when no driver call raises: the FormField, with the node
\* it came from; label <<>> stands for None
get_field_info(page, k) ==
    LET n == page[k]
        field_id == n.id
        field_name == OrElse(n.name, field_id)
        label == find_label_text(page, k)
    IN  [name |-> field_name,
         field_type |-> IF n.type = "" THEN "text" ELSE n.type,
         label |-> OrElse(label, OrElse(n.placeholder, OrElse(field_name, field_id))),
         required |-> n.required \/ n.aria_required,
         elem |-> k]

\* (By.XPATH, "//input[not(@type='hidden')] | //select | //textarea")
IsInputElement(n) ==
    \/ n.tag = "input" /\ n.type # "hidden"
    \/ n.tag \in {"select", "textarea"}

\* input_elements: the nodes located, in document order
input_elements(page) == SelectSeq([k \in 1..Len(page) |-> k],
                                  LAMBDA k : IsInputElement(page[k]))

\* Mutant: every header gets the marker
header_always_marked(f) == f.label \o <<" ", "*">>

\* header = field.label; if field.required: header += " *"
header(f) == IF f.required THEN f.label \o <<" ", "*">> ELSE f.label

\* The text of a label that marks its field with an asterisk
L_marked == <<"A", "b", " ", "*">>

AnalyzerTemplates ==
    NodeTemplates \cup
    { Node("label", <<>>, L_marked, V_q, "none", <<>>, TRUE, TRUE),
      Node("label", <<>>, L_Ab, V_q, "none", <<>>, FALSE, TRUE),
      [Node("input", "text", <<>>, <<>>, "placeholder", V_ab, TRUE, TRUE)
         EXCEPT !.name = V_xab, !.id = V_q],
      [Node("input", "text", <<>>, <<>>, "name", V_xab, TRUE, TRUE)
         EXCEPT !.id = V_q],
      [Node("input", "text", <<>>, <<>>, "name", V_ab, TRUE, TRUE)
         EXCEPT !.required = TRUE],
      [Node("input", "text", <<>>, <<>>, "id", V_ab, TRUE, TRUE)
         EXCEPT !.aria_required = TRUE] }

AnalyzerPages == UNION { [1..n -> AnalyzerTemplates] : n \in 0..MaxNodes }

AInit ==
    /\ apc = "setup"
    /\ apage \in AnalyzerPages
    /\ adriver = "None"
    /\ pos = 0
    /\ form_fields = <<>>
    /\ template = <<>>

\* self.setup_driver(); on an error the driver is quit, set to None, and the
\* exception goes to the except clause of analyze_form
ASetup ==
    /\ apc = "setup"
    /\ UNCHANGED nonanalyze
    /\ \/ adriver' = "open" /\ apc' = "load"
       \/ adriver' = "None" /\ apc' = "except"
    /\ UNCHANGED <<apage, pos, form_fields, template>>

\* self.driver.get(self.url) and the wait for the input elements: with none
\* present the wait times out
ALoad ==
    /\ apc = "load"
    /\ UNCHANGED nonanalyze
    /\ \/ /\ input_elements(apage) # <<>>
          /\ apc' = "fields"
       \/ apc' = "except"                \* TimeoutException or another driver error
    /\ UNCHANGED <<apage, adriver, pos, form_fields, template>>

\* for field in input_elements: field_info = self.get_field_info(field);
\* appended unless None (no label at all, or an exception caught inside)
AField ==
    /\ apc = "fields"
    /\ UNCHANGED nonanalyze
    /\ IF pos < Len(input_elements(apage))
         THEN /\ pos' = pos + 1
              /\ LET field_info == get_field_info(apage, input_elements(apage)[pos + 1]) IN
                 \/ form_fields' = IF field_info.label # <<>>
                                     THEN Append(form_fields, field_info)
                                     ELSE form_fields
                 \/ UNCHANGED form_fields        \* a driver call raises: None
              /\ UNCHANGED apc
         ELSE /\ apc' = "finally"
              /\ UNCHANGED <<pos, form_fields>>
    /\ UNCHANGED <<apage, adriver, template>>

\* except Exception as e: logging.error(...)
AExcept ==
    /\ apc = "except"
    /\ UNCHANGED nonanalyze
    /\ apc' = "finally"
    /\ UNCHANGED <<apage, adriver, pos, form_fields, template>>

\* finally: if self.driver: self.driver.quit()
AFinally ==
    /\ apc = "finally"
    /\ UNCHANGED nonanalyze
    /\ adriver' = IF adriver = "open" THEN "quit" ELSE adriver
    /\ apc' = "analyzed"
    /\ UNCHANGED <<apage, pos, form_fields, template>>

\* main: if analyzer.form_fields: analyzer.create_excel_template(), which writes
\* one header per entry and saves the workbook (or raises while doing so)
create_excel_template ==
    /\ apc = "analyzed"
    /\ UNCHANGED nonanalyze
    /\ IF form_fields = <<>>
         THEN UNCHANGED template
         ELSE \/ template' = [k \in 1..Len(form_fields) |-> header(form_fields[k])]
              \/ UNCHANGED template      \* wb.save raises
    /\ apc' = "done"
    /\ UNCHANGED <<apage, adriver, pos, form_fields>>

ANext ==
    \/ ASetup
    \/ ALoad
    \/ AField
    \/ AExcept
    \/ AFinally
    \/ create_excel_template

\* The start of the program, the other programs at rest
AnalyzeInit == AInit /\ BIdle /\ RIdle /\ SIdle /\ FIdle /\ MIdle /\ DIdle /\ CIdle

AnalyzeSpec == AnalyzeInit /\ [][ANext]_vars

----------------------------------------------------------------------------
\* Properties of the analyzer

\* C17: every column header the analyzer writes into the template, fed back
\* unchanged to the session on the same page, is resolved by the resolver to
\* an element, and to the element the analyzer derived the column from.
C17_TemplateRoundTrip ==
    \A k \in 1..Len(template) :
       find_field_by_multiple_strategies(apage, clean_field_name(template[k]))
         = Found(form_fields[k].elem)

\* C19: the analyzer only enumerates visible elements: every entry of
\* form_fields, and so every template column, comes from an element that is
\* displayed on the page.
C19_OnlyDisplayedFields ==
    \A k \in 1..Len(form_fields) : apage[form_fields[k].elem].displayed

----------------------------------------------------------------------------
\* Further properties of process_batch

\* C18: at every point of a process_batch run at most one driver session is
\* open: the constructor's session and setup_driver's are never open together,
\* no session of an earlier iteration is left unquit, and none is open when the
\* next batch starts.
C18_AtMostOneLiveSession ==
    /\ ~(ctor_session = "open" /\ setup_session = "open")
    /\ orphans = 0
    /\ bpc \in {"while", "ctor"}
       => ctor_session # "open" /\ setup_session # "open"

----------------------------------------------------------------------------
\* Further properties of find_field_by_multiple_strategies

\* C20: the strategies are tried in the order 1 to 8 and the first one whose
\* element is displayed and enabled gives the result; the next strategy, and
\* the fuzzy pass after the eighth, is consulted only when the strategies
\* before it gave no displayed and enabled element.
C20_FirstUsableStrategyWins ==
    [][ rpc = "strategies"
        => LET k == find_element(strategy, rpage, rlabel)
               EarlierFailed ==
                  \A s \in 1..(strategy - 1) :
                     ~Usable(rpage, find_element(s, rpage, rlabel))
           IN  /\ strategy \in 1..8
               /\ EarlierFailed
               /\ rresult'.kind = "found"
                  => Usable(rpage, k) /\ rresult'.elem = k
               /\ (Usable(rpage, k) /\ rresult'.kind # "raised")
                  => rresult' = Found(k) /\ rpc' = "done"
               /\ strategy' # strategy
                  => strategy' = strategy + 1 /\ ~Usable(rpage, k)
               /\ rpc' = "fuzzy"
                  => strategy = 8 /\ ~Usable(rpage, k) ]_vars

\* C20 witness: the sixth strategy gave the result after an earlier strategy
\* had selected an element that was not displayed or not enabled
C20_Witness ==
    /\ rpc = "done"
    /\ rresult.kind = "found"
    /\ strategy = 6
    /\ \E s \in 1..5 : find_element(s, rpage, rlabel) # 0

\* The text of the label associated with node k (label[for=id]), <<>> without one
associated_label_text(page, k) ==
    LET ls == {j \in 1..Len(page) :
                 page[j].tag = "label" /\ page[k].id # <<>> /\ page[j].for = page[k].id}
    IN  IF ls = {} THEN <<>> ELSE page[CHOOSE j \in ls : \A m \in ls : j <= m].text

\* The fuzzy rule as stated: a non-empty name, id, placeholder, aria-label or
\* associated label text that strings_similar accepts for the label
StatedFuzzyAccepts(page, label, k) ==
    \E v \in {page[k].name, page[k].id, page[k].placeholder, page[k].aria,
              associated_label_text(page, k)} :
       v # <<>> /\ strings_similar(label, v)

\* C21: when all eight strategies have failed, the fuzzy pass returns the first
\* candidate in document order (non-hidden input, textarea, select) whose name,
\* id, placeholder, aria-label or associated label text is similar to the
\* label, and None when there is no such candidate.
C21_FuzzyRule ==
    rpc = "fuzzy"
    => LET ks == {k \in 1..Len(rpage) :
                    IsCandidate(rpage[k]) /\ StatedFuzzyAccepts(rpage, rlabel, k)}
       IN  fuzzy_match(rpage, rlabel)
             = IF ks = {} THEN 0 ELSE CHOOSE k \in ks : \A m \in ks : k <= m

----------------------------------------------------------------------------
\* Further properties of fill_field and safe_send_keys

\* C22: safe_send_keys runs its attempts in the order 0 (typing), 1 (value set
\* by script), 2 (action chain); it returns at the first attempt whose
\* read-back is the value and runs no attempt after it; when none of the three
\* verifies it raises, and fill_field catches that and returns normally.
C22_AttemptsInOrder ==
    [][ /\ (fpc = "attempt" /\ attempt < 3)
           => /\ attempt' = attempt \/ attempt' = attempt + 1
              /\ attempt' = attempt <=> ssk' = "returned"
              /\ ssk' = "returned" <=> actual_value' = str_value
              /\ ssk' = "returned" => fpc' = "return"
              /\ ssk' # "returned" => fpc' = "attempt" /\ ssk' = "none"
        /\ (fpc = "attempt" /\ attempt >= 3)
           => /\ attempt = 3
              /\ ssk' = "raised"
              /\ caught'
              /\ fpc' = "return"
        /\ ssk' = "raised" => ssk = "raised" \/ (fpc = "attempt" /\ attempt = 3)
        /\ ssk \in {"returned", "raised"}
           => /\ fpc = "return"
              /\ elem_value' = elem_value
              /\ fpc' \in {"start", "done"} ]_vars

\* C22 witness: a first call whose three attempts all failed and was absorbed,
\* and the second call returned at its second attempt
C22_Witness ==
    /\ call = 2
    /\ first.caught
    /\ field_type = "text"
    /\ ssk = "returned"
    /\ attempt = 1

C24_RadioClickedOnlyForTruthy ==
    [][ fpc = "radio"
        => LET truthy == Lower(str_value) \in {S_true, S_yes, S_1, S_on} IN
           /\ truthy => clicks' = clicks + 1
           /\ ~truthy
              => /\ clicks' = clicks
                 /\ selected' = selected
                 /\ other_selected' = other_selected
                 /\ elem_value' = elem_value
                 /\ caught' = caught ]_vars

\* C24 witness: a call with the value "no" returned and left the selected
\* radio of the group selected
C24_Witness ==
    /\ field_type = "radio"
    /\ fpc = "return"
    /\ call = 1
    /\ str_value = S_no
    /\ other_selected
    /\ ~selected
    /\ clicks = 0

----------------------------------------------------------------------------
\* form_filler.py: submit_form, as fill_form calls it (driver, wait and actions
\* all set by setup_driver)

\* submit_strategies, by what each selects: button[type='submit'] or
\* input[type='submit']; .submit-button, .submitButton, .submit; a button whose
\* text holds 'submit'; input[type='image'][name*='submit']; (None, None), the
\* script document.forms[0].submit()
submit_strategies_script_first == <<"script", "typed", "class", "text", "image">>
submit_strategies == <<"typed", "class", "text", "image", "script">>

MInit ==
    /\ mpc = "cascade"
    /\ clickable \in SUBSET {"typed", "class", "text", "image"}
    /\ has_form \in BOOLEAN
    /\ submit_strategy = 1
    /\ invoked = <<>>
    /\ submit_result = "none"

\* for by, selector in submit_strategies: one turn. With a selector: wait until
\* the element is clickable (TimeoutException without one), move to it and
\* click; without: run the script. Any exception: continue. Else return True.
TrySubmit ==
    /\ mpc = "cascade"
    /\ submit_strategy <= Len(submit_strategies)
    /\ UNCHANGED nonsubmit
    /\ LET kind == submit_strategies[submit_strategy] IN
       /\ invoked' = Append(invoked, kind)
       /\ \/ /\ IF kind = "script" THEN has_form ELSE kind \in clickable
             /\ submit_result' = "True"
             /\ mpc' = "returned"
             /\ UNCHANGED submit_strategy
          \/ /\ submit_strategy' = submit_strategy + 1      \* the strategy raises
             /\ UNCHANGED <<submit_result, mpc>>
    /\ UNCHANGED <<clickable, has_form>>

\* return False, after the loop
ReturnFalse ==
    /\ mpc = "cascade"
    /\ submit_strategy > Len(submit_strategies)
    /\ UNCHANGED nonsubmit
    /\ submit_result' = "False"
    /\ mpc' = "returned"
    /\ UNCHANGED <<clickable, has_form, submit_strategy, invoked>>

MNext == TrySubmit \/ ReturnFalse

\* The start of the program, the other programs at rest
SubmitInit == MInit /\ BIdle /\ RIdle /\ SIdle /\ FIdle /\ AIdle /\ DIdle /\ CIdle

SubmitSpec == SubmitInit /\ [][MNext]_vars

\* C25: submit_form invokes its strategies in the order typed submit control,
\* class-named control, text-matched button, image submit, script submission;
\* the first invocation that does not raise ends the cascade with True and
\* nothing is invoked after it; the result is False exactly when all five were
\* invoked and raised.
C25_SubmitCascade ==
    [][ LET order == <<"typed", "class", "text", "image", "script">> IN
        /\ mpc = "cascade"
           => /\ invoked = SubSeq(order, 1, Len(invoked))
              /\ invoked' = SubSeq(order, 1, Len(invoked'))
              /\ Len(invoked') \in {Len(invoked), Len(invoked) + 1}
              /\ submit_result = "none"
              /\ submit_result' = "False" <=> (invoked = order /\ invoked' = invoked)
              /\ submit_result' = "True"
                 => Len(invoked') = Len(invoked) + 1 /\ mpc' = "returned"
              /\ submit_result' = "none" => Len(invoked') = Len(invoked) + 1
        /\ mpc = "returned"
           => invoked' = invoked /\ submit_result' = submit_result ]_vars

\* C25 witness: the third strategy submitted after the first two raised
C25_Witness ==
    /\ mpc = "returned"
    /\ submit_result = "True"
    /\ invoked = <<"typed", "class", "text">>

----------------------------------------------------------------------------
\* Further properties of FormFiller.fill_form

\* C26: rows are processed in file order: a lookup or a write is always for the
\* current row, after every earlier row's submit attempt and before its own;
\* the submit attempt of a row comes after the lookup of each of its present
\* columns; and every row gets exactly one submit attempt (in a session whose
\* navigations all worked).
C26_RowsInOrderOneSubmitEach ==
    [][ LET Earlier == 0..(idx - 1) IN
        /\ resolved' # resolved
           => /\ resolved' = resolved \cup {<<idx, col>>}
              /\ Earlier \subseteq submit_calls
              /\ idx \notin submit_calls
        /\ written' # written
           => /\ written' = written \cup {<<idx, col>>}
              /\ <<idx, col>> \in resolved
              /\ idx \notin submit_calls
        /\ submit_calls' # submit_calls
           => /\ submit_calls' = submit_calls \cup {idx}
              /\ idx \notin submit_calls
              /\ Earlier \subseteq submit_calls
              /\ \A c \in 1..Len(columns) :
                    df[idx + 1][c] # "nan" => <<idx, c>> \in resolved
        /\ (spc' = "done" /\ sexc_at' # "get")
           => submit_calls' = 0..(total_rows - 1) ]_vars

\* C27: within one batch the tabs are handled by one thread of control. The tabs
\* and the numbers of the batch are in one-to-one correspondence (one tab per
\* entry of the batch); an operation changes only the tab of the number being
\* processed, and the driver is switched to that tab when it acts, so the fill
\* data a tab holds is the data of its own number; no tab is filled before all
\* are navigated, and none is submitted before all are filled.
C27_TabsMultiplexed ==
    [][ /\ tab_pages' # <<>> => DOMAIN tab_pages' = 1..Len(batch') /\ active_tabs' = batch'
        /\ \A handle \in DOMAIN tab_pages' :
              /\ (handle \in DOMAIN tab_pages /\ tab_pages'[handle] # tab_pages[handle])
                    => handle = tab /\ active_tab' = tab
              /\ tab_pages'[handle].fill_data \in {0, batch'[handle]}
              /\ tab_pages'[handle].fill_data # 0
                    => \A other \in DOMAIN tab_pages' : tab_pages'[other].navigated
              /\ (tab_pages'[handle].next_script \/ tab_pages'[handle].popup_clicked)
                    => \A other \in DOMAIN tab_pages' :
                          tab_pages'[other].fill_data = batch'[other] ]_vars

\* A batch of two tabs or more in which the second tab was submitted: navigated,
\* filled with its number and sent the click-Next script, the first tab as well
C27_Witness ==
    /\ Len(tab_pages) >= 2
    /\ \A handle \in 1..2 :
          /\ tab_pages[handle].navigated
          /\ tab_pages[handle].fill_data = batch[handle]
          /\ tab_pages[handle].next_script
    /\ active_tab = 2

-----------------------------------------------------------------------------
\* bdo_form_filler.py: the field values the two paths send to the fill script

\* The longest phone number string of the model
MaxPhoneLen == 45

Digits == <<"0", "1", "2", "3", "4", "5", "6", "7", "8", "9">>

\* The strings of the model: n characters, the k-th one the digit k mod 10, with
\* or without a leading "+"
PhoneNumberOf(n, plus) ==
    [k \in 1..n |-> IF plus /\ k = 1 THEN "+" ELSE Digits[(k % 10) + 1]]

PhoneNumbers == {PhoneNumberOf(n, plus) : n \in 0..MaxPhoneLen, plus \in BOOLEAN}

\* s[-n:] of Python for n > 0: the last n characters, all of s when it is shorter
LastChars(s, n) == SubSeq(s, (IF Len(s) > n THEN Len(s) - n ELSE 0) + 1, Len(s))

gmail_com == <<"@", "g", "m", "a", "i", "l", ".", "c", "o", "m">>

\* Mutant: the number is cut to 40 characters before the domain is appended
fill_form_data_cut_number(p) ==
    [firstName |-> Take(p, 20), lastName |-> Take(p, 20), phone |-> LastChars(p, 11),
     email |-> Take(p, 40) \o gmail_com]

\* BDOFormFiller.fill_form: form_data = {'firstName': phone_number[:20],
\*   'lastName': phone_number[:20], 'phone': phone_number[-11:],
\*   'email': f"{phone_number}@gmail.com"[:40]}
fill_form_data(p) ==
    [firstName |-> Take(p, 20), lastName |-> Take(p, 20), phone |-> LastChars(p, 11),
     email |-> Take(p \o gmail_com, 40)]

\* process_batch: {'firstName': phone[:20], 'lastName': phone[:20],
\*   'phone': phone[-11:], 'email': f"{phone}@gmail.com"[:40]}
process_batch_data(p) ==
    [firstName |-> Take(p, 20), lastName |-> Take(p, 20), phone |-> LastChars(p, 11),
     email |-> Take(p \o gmail_com, 40)]

DInit ==
    /\ dpc = "run"
    /\ phone_number \in PhoneNumbers
    /\ computed = {}
    /\ form_data = NoData
    /\ batch_data = NoData

\* fill_form(phone_number) prepares form_data
PrepareFormData ==
    /\ dpc = "run"
    /\ "fill_form" \notin computed
    /\ form_data' = fill_form_data(phone_number)
    /\ computed' = computed \cup {"fill_form"}
    /\ UNCHANGED <<dpc, phone_number, batch_data, nondata>>

\* process_batch builds the argument of the fill script for phone
PrepareBatchData ==
    /\ dpc = "run"
    /\ "process_batch" \notin computed
    /\ batch_data' = process_batch_data(phone_number)
    /\ computed' = computed \cup {"process_batch"}
    /\ UNCHANGED <<dpc, phone_number, form_data, nondata>>

DNext == PrepareFormData \/ PrepareBatchData

DataInit == DInit /\ BIdle /\ RIdle /\ SIdle /\ FIdle /\ AIdle /\ MIdle /\ CIdle

DataSpec == DataInit /\ [][DNext]_vars

\* The field values as the claim states them for the number p, character by
\* character (the e-mail address read as the first 40 characters of the string
\* "p followed by @gmail.com")
StatedFields(d, p) ==
    LET address == p \o gmail_com IN
    /\ d.firstName = d.lastName
    /\ Len(d.firstName) = Min(20, Len(p))
    /\ \A k \in 1..Len(d.firstName) : d.firstName[k] = p[k]
    /\ Len(d.phone) = Min(11, Len(p))
    /\ \A k \in 1..Len(d.phone) : d.phone[Len(d.phone) + 1 - k] = p[Len(p) + 1 - k]
    /\ Len(d.email) = Min(40, Len(address))
    /\ \A k \in 1..Len(d.email) : d.email[k] = address[k]

\* C28: the field values are a function of the phone number string p alone: first
\* and last name are the first 20 characters of p, phone the last 11 characters
\* of p, email the first 40 characters of p followed by "@gmail.com"; the batch
\* path and the single-number path compute the same values for the same p.
C28_FieldsFromNumber ==
    /\ "fill_form" \in computed => StatedFields(form_data, phone_number)
    /\ "process_batch" \in computed => StatedFields(batch_data, phone_number)
    /\ computed = {"fill_form", "process_batch"} => form_data = batch_data

\* Both paths have prepared the data of a number of more than 30 characters: the
\* names, the phone and the address are all cut
C28_Witness ==
    /\ computed = {"fill_form", "process_batch"}
    /\ Len(phone_number) > 30
    /\ Len(form_data.email) = 40
    /\ Len(form_data.firstName) = 20
    /\ Len(batch_data.phone) = 11

-----------------------------------------------------------------------------
\* Properties of the template the analyzer writes

\* C29: the template has exactly one column per entry of form_fields, in the
\* order of form_fields; a column's header is the entry's label followed by
\* " *" if and only if the entry is required, and the bare label otherwise; with
\* no entry in form_fields no template is written.
C29_OneColumnPerField ==
    /\ form_fields = <<>> => template = <<>>
    /\ template # <<>> =>
          /\ Len(template) = Len(form_fields)
          /\ \A k \in 1..Len(template) :
                /\ template[k] = form_fields[k].label \o <<" ", "*">>
                      <=> form_fields[k].required
                /\ ~form_fields[k].required => template[k] = form_fields[k].label

\* A template of two columns was written, one of a required field and one of a
\* field that is not required
C29_Witness ==
    /\ apc = "done"
    /\ Len(template) = 2
    /\ form_fields[1].required
    /\ ~form_fields[2].required
    /\ template[1] # form_fields[1].label
    /\ template[2] = form_fields[2].label

\* C30: the required marker round-trips: the label the session derives from a
\* header of the template, by removing the marker, is exactly the label the
\* analyzer wrote the header from, whatever the required flag and also for a
\* label that contains " *" itself.
C30_MarkerRoundTrip ==
    \A k \in 1..Len(template) :
       clean_field_name(template[k]) = form_fields[k].label

-----------------------------------------------------------------------------
\* Further properties of FormFiller.fill_form

\* C31: an element handle is used only while it is valid. fill_field touches
\* an element only when the handle was obtained in the current page load and
\* the driver is open; a handle the resolver returned is passed to fill_field
\* before any navigation; after the driver is quit nothing is done with the
\* driver or an element; and fill_form never ends with the driver still open.
C31_HandleUsedWhileValid ==
    [][ /\ (written' # written \/ fill_failures' # fill_failures)
           => /\ field # 0
              /\ field_page = navigations
              /\ edge = "open"
        /\ spc = "fill_field" => navigations' = navigations /\ spc' = "columns"
        /\ navigations' # navigations => spc # "fill_field" /\ edge = "open"
        /\ edge = "quit"
           => UNCHANGED <<values, page_state, navigations, resolved, written,
                          fill_failures, submit_calls, field>>
        /\ spc' = "done" => edge' = "quit" ]_vars

\* fill_form ended with the driver quit after an exception reached its except
\* clause in the second row, an element of each row having been written to in
\* the page load of its row
C31_Witness ==
    /\ spc = "done"
    /\ edge = "quit"
    /\ sexc_at = "resolve"
    /\ navigations = 2
    /\ field_page = 2
    /\ \E c, d \in 1..Len(columns) : <<0, c>> \in written /\ <<1, d>> \in written

-----------------------------------------------------------------------------
\* The while loop of process_batch

\* ceil(n / d)
CeilDiv(n, d) == (n + d - 1) \div d

\* C32: process_batch terminates under every sequence of driver outcomes: every
\* iteration of the while loop leaves fewer remaining numbers than it found, so
\* that the body is entered at most ceil(N / min(20, max_tabs)) + 1 times.
C32_EveryIterationShrinks ==
    /\ (bpc = "while" /\ iterations > 0)
       => Len(remaining_numbers) < remaining_at_entry
    /\ iterations <= CeilDiv(Len(phone_numbers), Min(20, max_tabs)) + 1

-----------------------------------------------------------------------------
\* Further properties of the resolver

\* The resolver's result came from the fuzzy pass: an element was returned and
\* no strategy selects a displayed and enabled element
FoundByFuzzyPass ==
    /\ rpc = "done"
    /\ rresult.kind = "found"
    /\ \A s \in 1..8 : ~Usable(rpage, find_element(s, rpage, rlabel))

\* C33: fuzzy matching never accepts on the basis of an empty normalized
\* string: strings_similar is false when one of its arguments normalizes to the
\* empty string, so an element the fuzzy pass returns was accepted for a label
\* and an attribute value that both normalize to something, and a label that
\* normalizes to nothing is never resolved by the fuzzy pass.
C33_EmptyNeverSimilar ==
    FoundByFuzzyPass
    => /\ normalize_string(rlabel) # <<>>
       /\ \A v \in {rpage[rresult.elem].name, rpage[rresult.elem].id,
                    rpage[rresult.elem].placeholder, rpage[rresult.elem].aria} :
             (normalize_string(rlabel) = <<>> \/ normalize_string(v) = <<>>)
                => ~strings_similar(rlabel, v)

\* C34: every element the resolver returns, from one of the eight strategies or
\* from the fuzzy pass, is displayed and enabled when it is returned.
C34_ReturnedElementIsUsable ==
    (rpc = "done" /\ rresult.kind = "found")
    => /\ rpage[rresult.elem].displayed
       /\ rpage[rresult.elem].enabled

-----------------------------------------------------------------------------
\* bdo_form_filler.py: one number on one page, as BDOFormFiller.fill_form handles
\* it and as a tab of process_batch handles it

\* The four fields both fill scripts assign, in the order fill_form assigns them
FormFieldIds == <<"firstname", "lastname", "posttext", "emailaddress1">>

\* WebDriverWait(self.driver, 5) of fill_form, WebDriverWait(driver, 3) of
\* process_batch, time.sleep(2) after a click on an element found by name or id
SingleWait == 5
BatchWait == 3
SleepAfterClick == 2

\* Seconds after the click on Next at which #personalbtn becomes clickable (the
\* last value: never within any wait)
PopupDelays == {1, 4, 6, 99}

\* A page: whether #codrp exists, which of the four fields exist, which selectors
\* of a Next button select something, and when the popup button is clickable
TabDoms ==
    [codrp : BOOLEAN,
     fields : SUBSET {FormFieldIds[k] : k \in 1..4},
     next_by_name : BOOLEAN,            \* By.NAME, "ctl00$...$NextButton"
     next_by_id : BOOLEAN,              \* By.ID, "NextButton"
     next_input : BOOLEAN,              \* input[type="button"][value="Next"]
     next_button_class : BOOLEAN,       \* button.next, button.submit-btn
     popup_delay : PopupDelays]

\* fill_script of fill_form: nothing is assigned without #codrp; the fields are
\* assigned in order up to the first one that is missing
single_script_assigned(dom) ==
    IF ~dom.codrp THEN {}
    ELSE {"codrp"} \cup
         {FormFieldIds[k] : k \in {j \in 1..4 :
                                     \A i \in 1..j : FormFieldIds[i] \in dom.fields}}

\* fill_script of fill_form returns true: #codrp and all four fields were there
single_script_result(dom) ==
    dom.codrp /\ \A k \in 1..4 : FormFieldIds[k] \in dom.fields

\* The fill script of process_batch: every element that exists is assigned
batch_script_assigned(dom) ==
    (IF dom.codrp THEN {"codrp"} ELSE {}) \cup dom.fields

\* BDOFormFiller.fill_form: False unless the script filled everything; Next is
\* clicked through the element found by name, else by id (either followed by a
\* sleep), else by the click script; True when the popup button is clickable
\* within the wait and was clicked
fill_form_returns(dom) ==
    IF ~single_script_result(dom) THEN "False"
    ELSE IF dom.next_by_name \/ dom.next_by_id
      THEN IF dom.popup_delay <= SleepAfterClick + SingleWait THEN "True" ELSE "False"
    ELSE IF dom.next_input
      THEN IF dom.popup_delay <= SingleWait THEN "True" ELSE "False"
    ELSE "False"

\* One tab of process_batch: the fill script's outcome is not looked at; Next is
\* clicked by the click script; successful when the popup button is clickable
\* within the wait and was clicked
batch_tab_record(dom) ==
    IF (dom.next_input \/ dom.next_button_class) /\ dom.popup_delay <= BatchWait
      THEN "successful" ELSE "failed"

CInit ==
    /\ cpc = "run"
    /\ tab_dom \in TabDoms
    /\ fill_form_result = "none"
    /\ batch_record = "none"
    /\ single_assigned = {}
    /\ batch_assigned = {}

\* form_filler.fill_form(phone_number) on the page, no driver call raising
RunFillForm ==
    /\ cpc = "run"
    /\ fill_form_result = "none"
    /\ single_assigned' = single_script_assigned(tab_dom)
    /\ fill_form_result' = fill_form_returns(tab_dom)
    /\ UNCHANGED <<cpc, tab_dom, batch_record, batch_assigned, nonclassify>>

\* The fill pass and the submit pass of process_batch on a tab with the page, no
\* driver call raising
RunBatchTab ==
    /\ cpc = "run"
    /\ batch_record = "none"
    /\ batch_assigned' = batch_script_assigned(tab_dom)
    /\ batch_record' = batch_tab_record(tab_dom)
    /\ UNCHANGED <<cpc, tab_dom, fill_form_result, single_assigned, nonclassify>>

CNext == RunFillForm \/ RunBatchTab

ClassifyInit == CInit /\ BIdle /\ RIdle /\ SIdle /\ FIdle /\ AIdle /\ MIdle /\ DIdle

ClassifySpec == ClassifyInit /\ [][CNext]_vars

\* C35: the two paths classify the same page alike: process_batch records the
\* number successful if and only if fill_form returns True on that page, and a
\* number recorded successful had #codrp and all four fields assigned in its tab.
C35_PathsClassifyAlike ==
    /\ (fill_form_result # "none" /\ batch_record # "none")
       => (batch_record = "successful" <=> fill_form_result = "True")
    /\ batch_record = "successful"
       => batch_assigned = {"codrp"} \cup {FormFieldIds[k] : k \in 1..4}

-----------------------------------------------------------------------------
\* Further properties of the analyzer

\* The labels of the page associated with node k as the claim orders them: those
\* with for = the node's id and, when there is none, the label siblings (a node
\* of the page has no label ancestor); the text of the first one, stripped
StatedLabelText(page, k) ==
    LET by_for == {j \in 1..Len(page) : /\ page[j].tag = "label"
                                         /\ page[k].id # <<>>
                                         /\ page[j].for = page[k].id}
        siblings == {j \in 1..Len(page) : page[j].tag = "label"}
        ls == IF by_for # {} THEN by_for ELSE siblings
    IN  IF ls = {} THEN <<>>
        ELSE Strip(rendered_text(page[CHOOSE j \in ls : \A m \in ls : j <= m]))

\* The label by the stated priority: label text, placeholder, name, id
StatedLabel(page, k) ==
    IF StatedLabelText(page, k) # <<>> THEN StatedLabelText(page, k)
    ELSE IF page[k].placeholder # <<>> THEN page[k].placeholder
    ELSE IF page[k].name # <<>> THEN page[k].name
    ELSE page[k].id

====
